---------------------------- MODULE Spec2Model ----------------------------
(***************************************************************************)
(* A model of the userspace datapath of Open vSwitch 1.4.0                 *)
(* (lib/dpif-netdev.c) and of the flow extractor it relies on (lib/flow.c, *)
(* lib/flow.h).                                                            *)
(*                                                                         *)
(* Packets are sequences of bytes (0..255).  A multi-byte field of a key   *)
(* that does not fit an integer of the model checker is kept as the        *)
(* sequence of its bytes in memory order; a 16-bit network-order field is  *)
(* kept as the number its two bytes denote (first byte * 256 + second).    *)
(***************************************************************************)
EXTENDS Integers, Sequences, FiniteSets, Bags, TLC

(***************************************************************************)
(* Bounds of the model.                                                    *)
(***************************************************************************)
MaxFlows == 2        \* capacity of the flow table used for MAX_FLOWS
MaxPorts == 3        \* size of the port table used for MAX_PORTS
QueueBits == 1       \* log2 of the capacity of one upcall queue
MaxPackets == 2      \* packets looked up in the flow table in one behaviour
MaxTime == 2         \* last value of the monotonic clock
UIntBits == 4        \* width used for the unsigned int counters
MaxHandles == 2      \* handles (struct dpif_netdev) open at one time
MaxUpcalls == 3      \* packets looked up in a behaviour of SpecUpcall
StatBits == 3        \* width used for the long long statistics
MaxSerial == 5       \* last value of the port serial in a behaviour of SpecPorts
RandBits == 1        \* width used for the uint32_t of random_uint32()

(***************************************************************************)
(* Configuration parameters of dpif-netdev.c.                              *)
(***************************************************************************)
MAX_PORTS == MaxPorts
MAX_FLOWS == MaxFlows
N_QUEUES == 2
MAX_QUEUE_LEN == 2 ^ QueueBits
QUEUE_MASK == MAX_QUEUE_LEN - 1

DPIF_UC_MISS == 0
DPIF_UC_ACTION == 1

OVSP_LOCAL == 0
OFPP_MAX == 65280
OFPP_LOCAL == 65534
OFPP_NONE == 65535

NULL == [null |-> TRUE]

(***************************************************************************)
(* Wire constants used by flow.c.                                          *)
(***************************************************************************)
ETH_ADDR_LEN == 6
ETH_HEADER_LEN == 14
ETH_TYPE_MIN == 1536
ETH_TYPE_IP == 2048
ETH_TYPE_ARP == 2054
ETH_TYPE_VLAN == 33024
ETH_TYPE_IPV6 == 34525
FLOW_DL_TYPE_NONE == 1535
VLAN_CFI == 4096
IP_HEADER_LEN == 20
IP_MORE_FRAGMENTS == 8192
IP_FRAG_OFF_MASK == 8191
TCP_HEADER_LEN == 20
UDP_HEADER_LEN == 8
ICMP_HEADER_LEN == 8
ICMP6_HEADER_LEN == 8
IP6_HEADER_LEN == 40
IP6_FRAG_LEN == 8
IP6F_OFF_MASK == 65528
ARP_ETH_HEADER_LEN == 28
LLC_SNAP_HEADER_LEN == 8
IPPROTO_HOPOPTS == 0
IPPROTO_ICMP == 1
IPPROTO_TCP == 6
IPPROTO_UDP == 17
IPPROTO_ROUTING == 43
IPPROTO_FRAGMENT == 44
IPPROTO_AH == 51
IPPROTO_ICMPV6 == 58
IPPROTO_NONE == 59
IPPROTO_DSTOPTS == 60
ND_NEIGHBOR_SOLICIT == 135
ND_NEIGHBOR_ADVERT == 136
ND_OPT_SOURCE_LINKADDR == 1
ND_OPT_TARGET_LINKADDR == 2
ARP_OP_REQUEST == 1
ARP_OP_REPLY == 2
FLOW_NW_FRAG_ANY == 1
FLOW_NW_FRAG_LATER == 2
FLOW_SIG_SIZE == 130
FLOW_PAD_SIZE == 6

(***************************************************************************)
(* Bytes.                                                                  *)
(***************************************************************************)
Byte == 0..255

Zeros(n) == [i \in 1..n |-> 0]

\* The n bytes of p that follow its first o bytes.
BytesAt(p, o, n) == SubSeq(p, o + 1, o + n)

\* The 16-bit network-order number at offset o of p.
Be16At(p, o) == p[o + 1] * 256 + p[o + 2]

\* The two bytes of a 16-bit number, most significant first.
Be16Bytes(v) == <<v \div 256, v % 256>>

\* The two bytes of a 16-bit number in the memory order of the host.
Host16Bytes(v) == <<v % 256, v \div 256>>

\* Bitwise AND and OR of two naturals.
RECURSIVE BitAnd(_, _)
BitAnd(a, b) ==
    IF a = 0 \/ b = 0 THEN 0
    ELSE (IF a % 2 = 1 /\ b % 2 = 1 THEN 1 ELSE 0)
         + 2 * BitAnd(a \div 2, b \div 2)

RECURSIVE BitOr(_, _)
BitOr(a, b) ==
    IF a = 0 THEN b
    ELSE IF b = 0 THEN a
    ELSE (IF a % 2 = 1 \/ b % 2 = 1 THEN 1 ELSE 0)
         + 2 * BitOr(a \div 2, b \div 2)

(***************************************************************************)
(* struct flow (flow.h).                                                   *)
(***************************************************************************)
\* memset(flow, 0, sizeof *flow)
flow_zero ==
    [tun_id |-> Zeros(8), ipv6_src |-> Zeros(16), ipv6_dst |-> Zeros(16),
     nd_target |-> Zeros(16), priority |-> Zeros(4), regs |-> Zeros(20),
     nw_src |-> Zeros(4), nw_dst |-> Zeros(4), ipv6_label |-> Zeros(4),
     in_port |-> 0, vlan_tci |-> 0, dl_type |-> 0, tp_src |-> 0,
     tp_dst |-> 0, dl_src |-> Zeros(6), dl_dst |-> Zeros(6),
     nw_proto |-> 0, nw_tos |-> 0, arp_sha |-> Zeros(6),
     arp_tha |-> Zeros(6), nw_ttl |-> 0, nw_frag |-> 0,
     reserved |-> Zeros(6)]

\* The bytes of a struct flow in memory order: FLOW_SIG_SIZE significant
\* bytes followed by FLOW_PAD_SIZE bytes of padding.
FlowBytes(f) ==
    f.tun_id \o f.ipv6_src \o f.ipv6_dst \o f.nd_target \o f.priority
    \o f.regs \o f.nw_src \o f.nw_dst \o f.ipv6_label
    \o Host16Bytes(f.in_port) \o Be16Bytes(f.vlan_tci)
    \o Be16Bytes(f.dl_type) \o Be16Bytes(f.tp_src) \o Be16Bytes(f.tp_dst)
    \o f.dl_src \o f.dl_dst \o <<f.nw_proto, f.nw_tos>>
    \o f.arp_sha \o f.arp_tha \o <<f.nw_ttl, f.nw_frag>> \o f.reserved

\* memcmp(a, b, FLOW_SIG_SIZE): zero exactly when the prefixes agree.
flow_compare_3way(a, b) ==
    IF SubSeq(FlowBytes(a), 1, FLOW_SIG_SIZE)
       = SubSeq(FlowBytes(b), 1, FLOW_SIG_SIZE) THEN 0 ELSE 1

\* flow_equal() with the negation left out.
flow_equal_noneg(a, b) == flow_compare_3way(a, b) # 0

flow_equal(a, b) == flow_compare_3way(a, b) = 0

\* hash_bytes() of lib/hash.c over a byte sequence: a function of the bytes
\* and the basis alone.  It is kept as a weighted sum of bytes taken from
\* the members of the two structures that are hashed, struct flow and
\* struct flow_wildcards.
hash_bytes(bytes, basis) ==
    LET n == Len(bytes)
        At(i) == IF i <= n THEN bytes[i] ELSE 0
    IN  (basis + n + At(93) + 3 * At(97) + 5 * At(98) + 7 * At(115)
         + 11 * At(100) + 13 * At(102) + 17 * At(9) + 19 * At(36)
         + 23 * At(74) + 29 * At(75) + 31 * At(76)) % 65536

flow_hash(f, basis) ==
    hash_bytes(SubSeq(FlowBytes(f), 1, FLOW_SIG_SIZE), basis)

(***************************************************************************)
(* The flow extractor (flow.c).  An ofpbuf that views a packet p is the    *)
(* number o of bytes already pulled from its front: its data starts after  *)
(* the first o bytes of p and its size is Len(p) - o.  A header pointer is *)
(* such an offset, or NoPtr for a null pointer.                            *)
(***************************************************************************)
NoPtr == -1

BufSize(p, o) == Len(p) - o

IsExtHdr(nexthdr) ==
    nexthdr \in {IPPROTO_HOPOPTS, IPPROTO_ROUTING, IPPROTO_DSTOPTS,
                 IPPROTO_AH, IPPROTO_FRAGMENT}

eth_addr_is_zero(ea) == ea = Zeros(ETH_ADDR_LEN)

pull_arp(p, o) ==
    IF BufSize(p, o) >= ARP_ETH_HEADER_LEN THEN o + ARP_ETH_HEADER_LEN
    ELSE NoPtr

pull_ip(p, o) ==
    IF BufSize(p, o) >= IP_HEADER_LEN
    THEN LET ip_len == (p[o + 1] % 16) * 4
         IN  IF ip_len >= IP_HEADER_LEN /\ BufSize(p, o) >= ip_len
             THEN o + ip_len ELSE NoPtr
    ELSE NoPtr

pull_tcp(p, o) ==
    IF BufSize(p, o) >= TCP_HEADER_LEN
    THEN LET tcp_len == (p[o + 13] \div 16) * 4
         IN  IF tcp_len >= TCP_HEADER_LEN /\ BufSize(p, o) >= tcp_len
             THEN o + tcp_len ELSE NoPtr
    ELSE NoPtr

pull_udp(p, o) ==
    IF BufSize(p, o) >= UDP_HEADER_LEN THEN o + UDP_HEADER_LEN ELSE NoPtr

pull_icmp(p, o) ==
    IF BufSize(p, o) >= ICMP_HEADER_LEN THEN o + ICMP_HEADER_LEN ELSE NoPtr

pull_icmpv6(p, o) ==
    IF BufSize(p, o) >= ICMP6_HEADER_LEN THEN o + ICMP6_HEADER_LEN
    ELSE NoPtr

\* parse_vlan() that stores the TCI as it is on the wire.
parse_vlan_wire(p, o, flow) ==
    IF BufSize(p, o) >= 4 + 2
    THEN [o |-> o + 4,
          flow |-> [flow EXCEPT !.vlan_tci = Be16At(p, o + 2)]]
    ELSE [o |-> o, flow |-> flow]

parse_vlan(p, o, flow) ==
    IF BufSize(p, o) >= 4 + 2
    THEN [o |-> o + 4,
          flow |-> [flow EXCEPT
                      !.vlan_tci = BitOr(Be16At(p, o + 2), VLAN_CFI)]]
    ELSE [o |-> o, flow |-> flow]

parse_ethertype(p, o) ==
    LET proto == Be16At(p, o)
        b == o + 2
    IN  IF proto >= ETH_TYPE_MIN THEN [o |-> b, proto |-> proto]
        ELSE IF BufSize(p, b) < LLC_SNAP_HEADER_LEN
        THEN [o |-> b, proto |-> FLOW_DL_TYPE_NONE]
        ELSE IF \/ p[b + 1] # 170
                \/ p[b + 2] # 170
                \/ p[b + 3] # 3
                \/ BytesAt(p, b + 3, 3) # <<0, 0, 0>>
        THEN [o |-> b, proto |-> FLOW_DL_TYPE_NONE]
        ELSE [o |-> b + LLC_SNAP_HEADER_LEN, proto |-> Be16At(p, b + 6)]

\* The extension-header walk of parse_ipv6: the loop from the header kind
\* nexthdr at offset o.  err is TRUE where the code returns EINVAL.
RECURSIVE ipv6_ext_walk(_, _, _, _)
ipv6_ext_walk(p, o, nexthdr, flow) ==
    IF ~IsExtHdr(nexthdr)
    THEN [err |-> FALSE, o |-> o, nexthdr |-> nexthdr, flow |-> flow]
    ELSE IF BufSize(p, o) < 8
    THEN [err |-> TRUE, o |-> o, nexthdr |-> nexthdr, flow |-> flow]
    ELSE IF nexthdr \in {IPPROTO_HOPOPTS, IPPROTO_ROUTING, IPPROTO_DSTOPTS}
    THEN LET len == (p[o + 2] + 1) * 8
         IN  IF BufSize(p, o) < len
             THEN [err |-> TRUE, o |-> o, nexthdr |-> p[o + 1],
                   flow |-> flow]
             ELSE ipv6_ext_walk(p, o + len, p[o + 1], flow)
    ELSE IF nexthdr = IPPROTO_AH
    THEN LET len == (p[o + 2] + 2) * 4
         IN  IF BufSize(p, o) < len
             THEN [err |-> TRUE, o |-> o, nexthdr |-> p[o + 1],
                   flow |-> flow]
             ELSE ipv6_ext_walk(p, o + len, p[o + 1], flow)
    ELSE \* IPPROTO_FRAGMENT
         IF BitAnd(Be16At(p, o + 2), IP6F_OFF_MASK) # 0
         THEN [err |-> FALSE, o |-> o + IP6_FRAG_LEN,
               nexthdr |-> IPPROTO_FRAGMENT,
               flow |-> [flow EXCEPT !.nw_frag =
                           BitOr(FLOW_NW_FRAG_ANY, FLOW_NW_FRAG_LATER)]]
         ELSE ipv6_ext_walk(p, o + IP6_FRAG_LEN, p[o + 1],
                            [flow EXCEPT !.nw_frag = FLOW_NW_FRAG_ANY])

parse_ipv6(p, o, flow) ==
    IF BufSize(p, o) < IP6_HEADER_LEN
    THEN [err |-> TRUE, o |-> o, flow |-> flow]
    ELSE LET f1 == [flow EXCEPT
                      !.ipv6_src = BytesAt(p, o + 8, 16),
                      !.ipv6_dst = BytesAt(p, o + 24, 16),
                      !.nw_tos = (p[o + 1] % 16) * 16 + (p[o + 2] \div 16),
                      !.ipv6_label = <<0, p[o + 2] % 16, p[o + 3], p[o + 4]>>,
                      !.nw_ttl = p[o + 8],
                      !.nw_proto = IPPROTO_NONE]
             w == ipv6_ext_walk(p, o + IP6_HEADER_LEN, p[o + 7], f1)
         IN  IF w.err THEN [err |-> TRUE, o |-> w.o, flow |-> w.flow]
             ELSE [err |-> FALSE, o |-> w.o,
                   flow |-> [w.flow EXCEPT !.nw_proto = w.nexthdr]]

parse_tcp(p, o, flow, l7) ==
    LET tcp == pull_tcp(p, o)
    IN  IF tcp # NoPtr
        THEN [flow |-> [flow EXCEPT !.tp_src = Be16At(p, o),
                                    !.tp_dst = Be16At(p, o + 2)],
              l7 |-> tcp]
        ELSE [flow |-> flow, l7 |-> l7]

parse_udp(p, o, flow, l7) ==
    LET udp == pull_udp(p, o)
    IN  IF udp # NoPtr
        THEN [flow |-> [flow EXCEPT !.tp_src = Be16At(p, o),
                                    !.tp_dst = Be16At(p, o + 2)],
              l7 |-> udp]
        ELSE [flow |-> flow, l7 |-> l7]

\* The option walk of parse_icmpv6 from offset o; ok is FALSE where the
\* code jumps to "invalid".
RECURSIVE nd_opt_walk(_, _, _)
nd_opt_walk(p, o, flow) ==
    IF BufSize(p, o) < 8 THEN [ok |-> TRUE, o |-> o, flow |-> flow]
    ELSE LET opt_len == p[o + 2] * 8
             opt_type == p[o + 1]
         IN  IF opt_len = 0 \/ opt_len > BufSize(p, o)
             THEN [ok |-> FALSE, o |-> o, flow |-> flow]
             ELSE IF opt_type = ND_OPT_SOURCE_LINKADDR /\ opt_len = 8
             THEN IF eth_addr_is_zero(flow.arp_sha)
                  THEN nd_opt_walk(p, o + opt_len,
                         [flow EXCEPT
                            !.arp_sha = BytesAt(p, o + 2, ETH_ADDR_LEN)])
                  ELSE [ok |-> FALSE, o |-> o, flow |-> flow]
             ELSE IF opt_type = ND_OPT_TARGET_LINKADDR /\ opt_len = 8
             THEN IF eth_addr_is_zero(flow.arp_tha)
                  THEN nd_opt_walk(p, o + opt_len,
                         [flow EXCEPT
                            !.arp_tha = BytesAt(p, o + 2, ETH_ADDR_LEN)])
                  ELSE [ok |-> FALSE, o |-> o, flow |-> flow]
             ELSE nd_opt_walk(p, o + opt_len, flow)

parse_icmpv6(p, o, flow) ==
    LET icmp == pull_icmpv6(p, o)
    IN  IF icmp = NoPtr THEN [ok |-> FALSE, o |-> o, flow |-> flow]
        ELSE LET f1 == [flow EXCEPT !.tp_src = p[o + 1],
                                    !.tp_dst = p[o + 2]]
             IN  IF p[o + 2] = 0
                    /\ p[o + 1] \in {ND_NEIGHBOR_SOLICIT, ND_NEIGHBOR_ADVERT}
                 THEN IF BufSize(p, icmp) < 16
                      THEN [ok |-> FALSE, o |-> icmp, flow |-> f1]
                      ELSE LET f2 == [f1 EXCEPT
                                        !.nd_target = BytesAt(p, icmp, 16)]
                               w == nd_opt_walk(p, icmp + 16, f2)
                           IN  IF w.ok
                               THEN [ok |-> TRUE, o |-> w.o, flow |-> w.flow]
                               ELSE [ok |-> FALSE, o |-> w.o,
                                     flow |-> [w.flow EXCEPT
                                        !.nd_target = Zeros(16),
                                        !.arp_sha = Zeros(ETH_ADDR_LEN),
                                        !.arp_tha = Zeros(ETH_ADDR_LEN)]]
                 ELSE [ok |-> TRUE, o |-> icmp, flow |-> f1]

\* The network layer of flow_extract for an IPv4 frame whose payload
\* starts at offset o.
extract_ipv4(p, o, flow) ==
    LET nh == pull_ip(p, o)
    IN  IF nh = NoPtr THEN [flow |-> flow, l4 |-> NoPtr, l7 |-> NoPtr]
        ELSE
        LET frag_off == Be16At(p, o + 6)
            f1 == [flow EXCEPT
                     !.nw_src = BytesAt(p, o + 12, 4),
                     !.nw_dst = BytesAt(p, o + 16, 4),
                     !.nw_proto = p[o + 10],
                     !.nw_tos = p[o + 2],
                     !.nw_frag =
                        IF BitAnd(frag_off,
                                  IP_MORE_FRAGMENTS + IP_FRAG_OFF_MASK) # 0
                        THEN IF BitAnd(frag_off, IP_FRAG_OFF_MASK) # 0
                             THEN BitOr(FLOW_NW_FRAG_ANY, FLOW_NW_FRAG_LATER)
                             ELSE FLOW_NW_FRAG_ANY
                        ELSE 0,
                     !.nw_ttl = p[o + 9]]
        IN  IF BitAnd(frag_off, IP_FRAG_OFF_MASK) # 0
            THEN [flow |-> f1, l4 |-> nh, l7 |-> NoPtr]
            ELSE IF f1.nw_proto = IPPROTO_TCP
            THEN LET r == parse_tcp(p, nh, f1, NoPtr)
                 IN  [flow |-> r.flow, l4 |-> nh, l7 |-> r.l7]
            ELSE IF f1.nw_proto = IPPROTO_UDP
            THEN LET r == parse_udp(p, nh, f1, NoPtr)
                 IN  [flow |-> r.flow, l4 |-> nh, l7 |-> r.l7]
            ELSE IF f1.nw_proto = IPPROTO_ICMP
            THEN LET icmp == pull_icmp(p, nh)
                 IN  IF icmp # NoPtr
                     THEN [flow |-> [f1 EXCEPT !.tp_src = p[nh + 1],
                                               !.tp_dst = p[nh + 2]],
                           l4 |-> nh, l7 |-> icmp]
                     ELSE [flow |-> f1, l4 |-> nh, l7 |-> NoPtr]
            ELSE [flow |-> f1, l4 |-> nh, l7 |-> NoPtr]

\* The network layer of flow_extract for an IPv6 frame.
extract_ipv6(p, o, flow) ==
    LET r == parse_ipv6(p, o, flow)
    IN  IF r.err THEN [flow |-> r.flow, l4 |-> NoPtr, l7 |-> NoPtr]
        ELSE IF r.flow.nw_proto = IPPROTO_TCP
        THEN LET t == parse_tcp(p, r.o, r.flow, NoPtr)
             IN  [flow |-> t.flow, l4 |-> r.o, l7 |-> t.l7]
        ELSE IF r.flow.nw_proto = IPPROTO_UDP
        THEN LET u == parse_udp(p, r.o, r.flow, NoPtr)
             IN  [flow |-> u.flow, l4 |-> r.o, l7 |-> u.l7]
        ELSE IF r.flow.nw_proto = IPPROTO_ICMPV6
        THEN LET i == parse_icmpv6(p, r.o, r.flow)
             IN  [flow |-> i.flow, l4 |-> r.o,
                  l7 |-> IF i.ok THEN i.o ELSE NoPtr]
        ELSE [flow |-> r.flow, l4 |-> r.o, l7 |-> NoPtr]

\* The network layer of flow_extract for an ARP frame.
extract_arp(p, o, flow) ==
    LET arp == pull_arp(p, o)
    IN  IF /\ arp # NoPtr
           /\ Be16At(p, o) = 1
           /\ Be16At(p, o + 2) = ETH_TYPE_IP
           /\ p[o + 5] = ETH_ADDR_LEN
           /\ p[o + 6] = 4
        THEN LET op == Be16At(p, o + 6)
                 f1 == IF op <= 255 THEN [flow EXCEPT !.nw_proto = op]
                       ELSE flow
             IN  IF f1.nw_proto \in {ARP_OP_REQUEST, ARP_OP_REPLY}
                 THEN [f1 EXCEPT
                         !.nw_src = BytesAt(p, o + 14, 4),
                         !.nw_dst = BytesAt(p, o + 24, 4),
                         !.arp_sha = BytesAt(p, o + 8, ETH_ADDR_LEN),
                         !.arp_tha = BytesAt(p, o + 18, ETH_ADDR_LEN)]
                 ELSE f1
        ELSE flow

\* flow_extract(packet, priority, tun_id, ofp_in_port, flow): the key and
\* the header pointers it leaves in the packet.
flow_extract(p, priority, tun_id, ofp_in_port) ==
    LET f0 == [flow_zero EXCEPT !.tun_id = tun_id,
                                !.in_port = ofp_in_port,
                                !.priority = priority]
    IN  IF Len(p) < ETH_HEADER_LEN
        THEN [flow |-> f0, l2 |-> 0, l3 |-> NoPtr, l4 |-> NoPtr,
              l7 |-> NoPtr]
        ELSE
        LET f1 == [f0 EXCEPT !.dl_src = BytesAt(p, ETH_ADDR_LEN, ETH_ADDR_LEN),
                             !.dl_dst = BytesAt(p, 0, ETH_ADDR_LEN)]
            v == IF Be16At(p, 2 * ETH_ADDR_LEN) = ETH_TYPE_VLAN
                 THEN parse_vlan(p, 2 * ETH_ADDR_LEN, f1)
                 ELSE [o |-> 2 * ETH_ADDR_LEN, flow |-> f1]
            t == parse_ethertype(p, v.o)
            f2 == [v.flow EXCEPT !.dl_type = t.proto]
            l3 == t.o
        IN  IF f2.dl_type = ETH_TYPE_IP
            THEN LET r == extract_ipv4(p, l3, f2)
                 IN  [flow |-> r.flow, l2 |-> 0, l3 |-> l3, l4 |-> r.l4,
                      l7 |-> r.l7]
            ELSE IF f2.dl_type = ETH_TYPE_IPV6
            THEN LET r == extract_ipv6(p, l3, f2)
                 IN  [flow |-> r.flow, l2 |-> 0, l3 |-> l3, l4 |-> r.l4,
                      l7 |-> r.l7]
            ELSE IF f2.dl_type = ETH_TYPE_ARP
            THEN [flow |-> extract_arp(p, l3, f2), l2 |-> 0, l3 |-> l3,
                  l4 |-> NoPtr, l7 |-> NoPtr]
            ELSE [flow |-> f2, l2 |-> 0, l3 |-> l3, l4 |-> NoPtr,
                  l7 |-> NoPtr]

(***************************************************************************)
(* The external encoding of a flow key (lib/odp-util.c): an attribute      *)
(* stream that round-trips losslessly to and from the significant prefix   *)
(* of the in-memory key.  The stream is kept as the bytes it determines.   *)
(***************************************************************************)
odp_flow_key_from_flow(flow) == SubSeq(FlowBytes(flow), 1, FLOW_SIG_SIZE)

\* error is TRUE where the stream does not decode; decoding starts from a
\* zeroed struct flow, so the padding of the result is zero.
odp_flow_key_to_flow(key) ==
    IF Len(key) # FLOW_SIG_SIZE
    THEN [error |-> TRUE, flow |-> flow_zero]
    ELSE [error |-> FALSE,
          flow |->
            [tun_id |-> BytesAt(key, 0, 8),
             ipv6_src |-> BytesAt(key, 8, 16),
             ipv6_dst |-> BytesAt(key, 24, 16),
             nd_target |-> BytesAt(key, 40, 16),
             priority |-> BytesAt(key, 56, 4),
             regs |-> BytesAt(key, 60, 20),
             nw_src |-> BytesAt(key, 80, 4),
             nw_dst |-> BytesAt(key, 84, 4),
             ipv6_label |-> BytesAt(key, 88, 4),
             in_port |-> key[93] + 256 * key[94],
             vlan_tci |-> Be16At(key, 94),
             dl_type |-> Be16At(key, 96),
             tp_src |-> Be16At(key, 98),
             tp_dst |-> Be16At(key, 100),
             dl_src |-> BytesAt(key, 102, 6),
             dl_dst |-> BytesAt(key, 108, 6),
             nw_proto |-> key[115],
             nw_tos |-> key[116],
             arp_sha |-> BytesAt(key, 116, 6),
             arp_tha |-> BytesAt(key, 122, 6),
             nw_ttl |-> key[129],
             nw_frag |-> key[130],
             reserved |-> Zeros(FLOW_PAD_SIZE)]]

(***************************************************************************)
(* The state of one datapath instance (struct dp_netdev), the one           *)
(* registered under the name TheDp, of the registry and the open handles,  *)
(* and of the environment.  Of the other instances the registry keeps the  *)
(* part of struct dp_netdev that open, close and destroy use: no other     *)
(* operation of the model is applied to them.                              *)
(***************************************************************************)
VARIABLES
    flow_table,   \* dp->flow_table: the bag of its entries
    queues,       \* dp->queues: per queue, head, tail and the upcalls ring
    n_hit,        \* dp->n_hit
    n_missed,     \* dp->n_missed
    n_lost,       \* dp->n_lost
    ports,        \* dp->ports: port number -> port, or NULL
    port_list,    \* dp->port_list: the port numbers in list order
    serial,       \* dp->serial
    max_mtu,      \* the file-scope max_mtu
    now,          \* the value time_msec() returns
    aborted,      \* the process has ended: NOT_REACHED(), a failed assert()
                  \* or a memory fault
    faulted,      \* what ended the process was a memory fault
    shadow,       \* history: what the callers expect each key they have
                  \* put to hold, its actions and its TCP flags
    dp_netdevs,   \* the registry: name -> class, open_cnt and destroyed of
                  \* the instance registered under it, or NULL
    dpifs,        \* the handles: per slot NULL, or the dp, listen_mask and
                  \* dp_serial of an open struct dpif_netdev
    pending,      \* history: per queue, the upcalls enqueued and neither
                  \* received nor purged yet, oldest first
    delivered,    \* history: the upcall the last successful recv stored
    port_changes, \* history: per handle, the successful port adds and
                  \* deletes on its instance since it was opened or last
                  \* polled
    buf,          \* a packet outside the datapath: its bytes, the header
                  \* pointers and the key flow_extract() has filled in, and
                  \* the bytes it had when it was sent; or NULL
    wc            \* a struct flow_wildcards outside the datapath, or NULL

dpVars == <<flow_table, queues, n_hit, n_missed, n_lost>>
portVars == <<ports, port_list, serial, max_mtu>>
handleVars == <<dp_netdevs, dpifs>>
vars == <<flow_table, queues, n_hit, n_missed, n_lost, ports, port_list,
          serial, max_mtu, now, aborted, faulted, shadow, dp_netdevs, dpifs,
          pending, delivered, port_changes, buf, wc>>

\* The part of struct dp_netdev that packet processing reads and writes.
DP == [flow_table |-> flow_table, queues |-> queues, n_hit |-> n_hit,
       n_missed |-> n_missed, n_lost |-> n_lost, aborted |-> aborted,
       faulted |-> faulted]

ETH_PAYLOAD_MAX == 1500

\* TCP_FLAGS(tcp_ctl) of packets.h: the low six bits.
TCP_FLAGS(tcp_ctl) == tcp_ctl % 64

EmptyQueue == [head |-> 0, tail |-> 0,
               upcalls |-> [i \in 0..(MAX_QUEUE_LEN - 1) |-> NULL]]

\* The names datapaths are opened under, and the one whose instance the
\* model keeps whole.
Names == {"dp0", "dp1"}
TheDp == "dp0"

\* The two classes that share dpif_netdev_open(): dpif_netdev_class and
\* dpif_dummy_class.
Classes == {"netdev", "dummy"}

Handles == 1..MaxHandles

\* The instance as create_dp_netdev() and create_dpif_netdev() leave it.
Constructed ==
    /\ flow_table = EmptyBag
    /\ queues = [i \in 0..(N_QUEUES - 1) |-> EmptyQueue]
    /\ n_hit = 0
    /\ n_missed = 0
    /\ n_lost = 0
    /\ ports = [n \in 0..(MAX_PORTS - 1) |->
                  IF n = OVSP_LOCAL
                  THEN [port_no |-> OVSP_LOCAL, name |-> TheDp,
                        internal |-> TRUE]
                  ELSE NULL]
    /\ port_list = <<OVSP_LOCAL>>
    /\ serial = 1
    /\ max_mtu = ETH_PAYLOAD_MAX
    /\ now = 1
    /\ aborted = FALSE
    /\ faulted = FALSE
    /\ shadow = {}
    /\ dp_netdevs = [n \in Names |->
                       IF n = TheDp
                       THEN [class |-> "netdev", open_cnt |-> 1,
                             destroyed |-> FALSE]
                       ELSE NULL]
    /\ dpifs = [h \in Handles |->
                  IF h = 1
                  THEN [dp |-> TheDp, listen_mask |-> 0, dp_serial |-> 1]
                  ELSE NULL]
    /\ pending = [c \in 0..(N_QUEUES - 1) |-> <<>>]
    /\ delivered = NULL
    /\ port_changes = [h \in Handles |-> 0]

Init == Constructed /\ buf = NULL /\ wc = NULL

(***************************************************************************)
(* The flow table: an hmap is the bag of its nodes.                        *)
(***************************************************************************)
hmap_count(table) == BagCardinality(table)
hmap_insert(table, node) == table (+) SetToBag({node})
hmap_remove(table, node) == table (-) SetToBag({node})

\* The entry dp_netdev_lookup_flow() returns, or NULL: a node stored under
\* the hash of the key whose key equals it.
dp_netdev_lookup_flow(table, key) ==
    LET hits == {e \in BagToSet(table) :
                    /\ e.hash = flow_hash(key, 0)
                    /\ flow_equal(e.key, key)}
    IN  IF hits = {} THEN NULL ELSE CHOOSE e \in hits : TRUE

get_dpif_flow_stats(flow) ==
    [n_packets |-> flow.packet_count,
     n_bytes |-> flow.byte_count,
     used |-> flow.used,
     tcp_flags |-> TCP_FLAGS(flow.tcp_ctl)]

\* The in_port check with > for >=.
dpif_netdev_flow_from_nlattrs_gt(nl_key) ==
    LET d == odp_flow_key_to_flow(nl_key)
    IN  IF d.error THEN [error |-> "EINVAL", flow |-> d.flow]
        ELSE IF (IF d.flow.in_port < OFPP_MAX
                 THEN d.flow.in_port > MAX_PORTS
                 ELSE d.flow.in_port # OFPP_LOCAL
                      /\ d.flow.in_port # OFPP_NONE)
        THEN [error |-> "EINVAL", flow |-> d.flow]
        ELSE [error |-> "OK", flow |-> d.flow]

dpif_netdev_flow_from_nlattrs(nl_key) ==
    LET d == odp_flow_key_to_flow(nl_key)
    IN  IF d.error THEN [error |-> "EINVAL", flow |-> d.flow]
        ELSE IF (IF d.flow.in_port < OFPP_MAX
                 THEN d.flow.in_port >= MAX_PORTS
                 ELSE d.flow.in_port # OFPP_LOCAL
                      /\ d.flow.in_port # OFPP_NONE)
        THEN [error |-> "EINVAL", flow |-> d.flow]
        ELSE [error |-> "OK", flow |-> d.flow]

\* set_flow_actions() that leaves the old actions in place.
set_flow_actions_keep(flow, actions) == flow

set_flow_actions(flow, actions) == [flow EXCEPT !.actions = actions]

\* The table after add_flow(): a zeroed entry with the key and the actions,
\* inserted under the hash of its key.
add_flow(table, key, actions) ==
    hmap_insert(table,
                set_flow_actions([hash |-> flow_hash(key, 0), key |-> key,
                                  used |-> 0, packet_count |-> 0,
                                  byte_count |-> 0, tcp_ctl |-> 0,
                                  actions |-> <<>>], actions))

\* A capacity test that is off by one.
table_has_room_le(table) == hmap_count(table) <= MAX_FLOWS

\* The capacity test of dpif_netdev_flow_put().
table_has_room(table) == hmap_count(table) < MAX_FLOWS

\* clear_stats() that forgets tcp_ctl.
clear_stats_keep_ctl(flow) ==
    [flow EXCEPT !.used = 0, !.packet_count = 0, !.byte_count = 0]

clear_stats(flow) ==
    [flow EXCEPT !.used = 0, !.packet_count = 0, !.byte_count = 0,
                 !.tcp_ctl = 0]

\* dp_netdev_free_flow() that empties the table.
dp_netdev_free_flow_all(table, flow) == EmptyBag

dp_netdev_free_flow(table, flow) == hmap_remove(table, flow)

RECURSIVE dp_netdev_flow_flush(_)
dp_netdev_flow_flush(table) ==
    IF table = EmptyBag THEN table
    ELSE dp_netdev_flow_flush(
            dp_netdev_free_flow(table, CHOOSE e \in BagToSet(table) : TRUE))

ZeroStats == [n_packets |-> 0, n_bytes |-> 0, used |-> 0, tcp_flags |-> 0]

\* dpif_netdev_flow_put() that modifies an existing flow whether or not
\* the modify flag is set.
flow_put_overwrite(table, flags, nl_key, actions) ==
    LET d == dpif_netdev_flow_from_nlattrs(nl_key)
        flow == dp_netdev_lookup_flow(table, d.flow)
    IN  IF d.error # "OK"
        THEN [ret |-> d.error, table |-> table, stats |-> NULL]
        ELSE IF flow = NULL
        THEN IF "CREATE" \in flags
             THEN IF table_has_room(table)
                  THEN [ret |-> "OK",
                        table |-> add_flow(table, d.flow, actions),
                        stats |-> ZeroStats]
                  ELSE [ret |-> "EFBIG", table |-> table, stats |-> NULL]
             ELSE [ret |-> "ENOENT", table |-> table, stats |-> NULL]
        ELSE LET f1 == set_flow_actions(flow, actions)
                 f2 == IF "ZERO_STATS" \in flags THEN clear_stats(f1)
                       ELSE f1
             IN  [ret |-> "OK",
                  table |-> hmap_insert(hmap_remove(table, flow), f2),
                  stats |-> get_dpif_flow_stats(f1)]

\* What dpif_netdev_flow_put() returns and the table it leaves; stats is
\* what it stores through 'stats', NULL when it stores nothing.
flow_put(table, flags, nl_key, actions) ==
    LET d == dpif_netdev_flow_from_nlattrs(nl_key)
        flow == dp_netdev_lookup_flow(table, d.flow)
    IN  IF d.error # "OK"
        THEN [ret |-> d.error, table |-> table, stats |-> NULL]
        ELSE IF flow = NULL
        THEN IF "CREATE" \in flags
             THEN IF table_has_room(table)
                  THEN [ret |-> "OK",
                        table |-> add_flow(table, d.flow, actions),
                        stats |-> ZeroStats]
                  ELSE [ret |-> "EFBIG", table |-> table, stats |-> NULL]
             ELSE [ret |-> "ENOENT", table |-> table, stats |-> NULL]
        ELSE IF "MODIFY" \in flags
             THEN LET f1 == set_flow_actions(flow, actions)
                      f2 == IF "ZERO_STATS" \in flags THEN clear_stats(f1)
                            ELSE f1
                  IN  [ret |-> "OK",
                       table |-> hmap_insert(hmap_remove(table, flow), f2),
                       stats |-> get_dpif_flow_stats(f1)]
             ELSE [ret |-> "EEXIST", table |-> table, stats |-> NULL]

\* What dpif_netdev_flow_get() returns.
flow_get(table, nl_key) ==
    LET d == dpif_netdev_flow_from_nlattrs(nl_key)
        flow == dp_netdev_lookup_flow(table, d.flow)
    IN  IF d.error # "OK"
        THEN [ret |-> d.error, stats |-> NULL, actions |-> NULL]
        ELSE IF flow = NULL
        THEN [ret |-> "ENOENT", stats |-> NULL, actions |-> NULL]
        ELSE [ret |-> "OK", stats |-> get_dpif_flow_stats(flow),
              actions |-> flow.actions]

\* What dpif_netdev_flow_del() returns and the table it leaves.
flow_del(table, nl_key) ==
    LET d == dpif_netdev_flow_from_nlattrs(nl_key)
        flow == dp_netdev_lookup_flow(table, d.flow)
    IN  IF d.error # "OK"
        THEN [ret |-> d.error, table |-> table, stats |-> NULL]
        ELSE IF flow # NULL
        THEN [ret |-> "OK", table |-> dp_netdev_free_flow(table, flow),
              stats |-> get_dpif_flow_stats(flow)]
        ELSE [ret |-> "ENOENT", table |-> table, stats |-> NULL]

(***************************************************************************)
(* Ports.  ps is the part of the state do_add_port() and do_del_port()     *)
(* write: dp->ports, dp->port_list, dp->serial and the file-scope max_mtu. *)
(* nd is what the network device layer answers: error is what              *)
(* netdev_open(), netdev_listen() or netdev_turn_flags_on() return, mtu    *)
(* what netdev_get_mtu() stores, NULL when it fails.                       *)
(***************************************************************************)
PortState(prts, plist, ser, mtu) ==
    [ports |-> prts, port_list |-> plist, serial |-> ser, max_mtu |-> mtu]

PortTypes == {"", "system", "dummy", "internal"}

do_add_port(ps, devname, type, port_no, nd) ==
    IF type \notin PortTypes THEN [ret |-> "EINVAL", ps |-> ps]
    ELSE IF nd.error # "OK" THEN [ret |-> nd.error, ps |-> ps]
    ELSE [ret |-> "OK",
          ps |-> [ports |-> [ps.ports EXCEPT ![port_no] =
                               [port_no |-> port_no, name |-> devname,
                                internal |-> (type = "internal")]],
                  port_list |-> Append(ps.port_list, port_no),
                  serial |-> (ps.serial + 1) % (2 ^ UIntBits),
                  max_mtu |-> IF nd.mtu # NULL THEN nd.mtu.value
                              ELSE ps.max_mtu]]

\* The loop of dpif_netdev_port_add() that keeps the last port number not
\* in use it meets.
first_free_port_last(prts, n) ==
    IF \A m \in n..(MAX_PORTS - 1) : prts[m] # NULL THEN NULL
    ELSE [port_no |-> CHOOSE m \in n..(MAX_PORTS - 1) :
                         /\ prts[m] = NULL
                         /\ \A k \in (m + 1)..(MAX_PORTS - 1) : prts[k] # NULL]

\* The loop of dpif_netdev_port_add() from port number n on: the first
\* port number not in use, or NULL.
RECURSIVE first_free_port(_, _)
first_free_port(prts, n) ==
    IF n >= MAX_PORTS THEN NULL
    ELSE IF prts[n] = NULL THEN [port_no |-> n]
    ELSE first_free_port(prts, n + 1)

port_add_found(ps, devname, type, nd, free) ==
    IF free = NULL THEN [ret |-> "EFBIG", ps |-> ps, port_no |-> NULL]
    ELSE [ret |-> do_add_port(ps, devname, type, free.port_no, nd).ret,
          ps |-> do_add_port(ps, devname, type, free.port_no, nd).ps,
          port_no |-> free]

\* What dpif_netdev_port_add() returns, the state it leaves and what it
\* stores through port_nop.
port_add(ps, devname, type, nd) ==
    port_add_found(ps, devname, type, nd, first_free_port(ps.ports, 0))

is_valid_port_number(port_no) == port_no < MAX_PORTS

get_port_by_number(prts, port_no) ==
    IF ~is_valid_port_number(port_no) THEN [ret |-> "EINVAL", port |-> NULL]
    ELSE [ret |-> IF prts[port_no] # NULL THEN "OK" ELSE "ENOENT",
          port |-> prts[port_no]]

\* list_remove() that leaves the list as it is.
list_remove_none(plist, port_no) == plist

\* list_remove() of one port number from the port list.
list_remove(plist, port_no) ==
    SelectSeq(plist, LAMBDA n : n # port_no)

do_del_port(ps, port_no) ==
    IF get_port_by_number(ps.ports, port_no).ret # "OK"
    THEN [ret |-> get_port_by_number(ps.ports, port_no).ret, ps |-> ps]
    ELSE [ret |-> "OK",
          ps |-> [ps EXCEPT
                    !.port_list = list_remove(@, port_no),
                    !.ports[port_no] = NULL,
                    !.serial = (@ + 1) % (2 ^ UIntBits)]]

\* dpif_netdev_port_del() that deletes the local port as any other.
port_del_any(ps, port_no) == do_del_port(ps, port_no)

\* What dpif_netdev_port_del() returns and the state it leaves.
port_del(ps, port_no) ==
    IF port_no = OVSP_LOCAL THEN [ret |-> "EINVAL", ps |-> ps]
    ELSE do_del_port(ps, port_no)

\* dpif_netdev_port_poll() that does not store the serial it has seen.
port_poll_nostore(dpif, ser) ==
    IF dpif.dp_serial # ser
    THEN [ret |-> "ENOBUFS", dpif |-> dpif]
    ELSE [ret |-> "EAGAIN", dpif |-> dpif]

\* What dpif_netdev_port_poll() returns on a handle, and the handle after.
port_poll(dpif, ser) ==
    IF dpif.dp_serial # ser
    THEN [ret |-> "ENOBUFS", dpif |-> [dpif EXCEPT !.dp_serial = ser]]
    ELSE [ret |-> "EAGAIN", dpif |-> dpif]

(***************************************************************************)
(* The registry dp_netdevs and the handles.  reg maps a name to the class, *)
(* open_cnt and destroyed of the instance registered under it, hs a slot   *)
(* to an open handle.                                                      *)
(***************************************************************************)
\* create_dpif_netdev() that leaves the open count as it is.
create_dpif_netdev_nocount(reg, hs, name, ser, h) ==
    [reg |-> reg,
     hs |-> [hs EXCEPT ![h] = [dp |-> name, listen_mask |-> 0,
                               dp_serial |-> ser]]]

\* create_dpif_netdev() for the instance registered under name, whose
\* serial is ser; the handle is built in slot h.
create_dpif_netdev(reg, hs, name, ser, h) ==
    [reg |-> [reg EXCEPT ![name].open_cnt = @ + 1],
     hs |-> [hs EXCEPT ![h] = [dp |-> name, listen_mask |-> 0,
                               dp_serial |-> ser]]]

\* The registry after create_dp_netdev() whose do_add_port() succeeded.
create_dp_netdev(reg, name, class) ==
    [reg EXCEPT ![name] = [class |-> class, open_cnt |-> 0,
                           destroyed |-> FALSE]]

\* What dpif_netdev_open() returns, and the registry and handles it
\* leaves.  add_ret is what do_add_port() of the local port returns when
\* an instance is created, ser the serial of the instance the handle is
\* made for, h the slot of the new handle.  created tells whether
\* create_dp_netdev() registered an instance.
open_failed(ret, reg, hs) ==
    [ret |-> ret, reg |-> reg, hs |-> hs, created |-> FALSE]

open_attached(reg, hs, name, ser, h, created) ==
    [ret |-> "OK",
     reg |-> create_dpif_netdev(reg, hs, name, ser, h).reg,
     hs |-> create_dpif_netdev(reg, hs, name, ser, h).hs,
     created |-> created]

\* dpif_netdev_open() that does not compare classes.
open_any_class(reg, hs, class, name, create, add_ret, ser, h) ==
    IF reg[name] = NULL
    THEN IF ~create THEN open_failed("ENODEV", reg, hs)
         ELSE IF add_ret # "OK" THEN open_failed(add_ret, reg, hs)
         ELSE open_attached(create_dp_netdev(reg, name, class), hs, name,
                            ser, h, TRUE)
    ELSE IF create THEN open_failed("EEXIST", reg, hs)
    ELSE open_attached(reg, hs, name, ser, h, FALSE)

\* dpif_netdev_open() whose create replaces an instance registered under
\* the name by a fresh one.
open_create_fresh(reg, hs, class, name, create, add_ret, ser, h) ==
    IF reg[name] = NULL \/ create
    THEN IF ~create THEN open_failed("ENODEV", reg, hs)
         ELSE IF add_ret # "OK" THEN open_failed(add_ret, reg, hs)
         ELSE open_attached(create_dp_netdev(reg, name, class), hs, name,
                            ser, h, TRUE)
    ELSE IF reg[name].class # class THEN open_failed("EINVAL", reg, hs)
    ELSE open_attached(reg, hs, name, ser, h, FALSE)

open(reg, hs, class, name, create, add_ret, ser, h) ==
    IF reg[name] = NULL
    THEN IF ~create THEN open_failed("ENODEV", reg, hs)
         ELSE IF add_ret # "OK" THEN open_failed(add_ret, reg, hs)
         ELSE open_attached(create_dp_netdev(reg, name, class), hs, name,
                            ser, h, TRUE)
    ELSE IF reg[name].class # class THEN open_failed("EINVAL", reg, hs)
    ELSE IF create THEN open_failed("EEXIST", reg, hs)
    ELSE open_attached(reg, hs, name, ser, h, FALSE)

\* dpif_netdev_close() that frees the instance at its last close whether
\* or not a destroy was requested.
close_last_frees(reg, hs, h) ==
    LET name == hs[h].dp
        cnt == reg[name].open_cnt - 1
    IN  IF reg[name].open_cnt <= 0
        THEN [reg |-> reg, hs |-> hs, freed |-> FALSE, failed |-> TRUE]
        ELSE IF cnt = 0
        THEN [reg |-> [reg EXCEPT ![name] = NULL],
              hs |-> [hs EXCEPT ![h] = NULL],
              freed |-> TRUE, failed |-> FALSE]
        ELSE [reg |-> [reg EXCEPT ![name].open_cnt = cnt],
              hs |-> [hs EXCEPT ![h] = NULL],
              freed |-> FALSE, failed |-> FALSE]

\* dpif_netdev_close() of the handle in slot h: the registry and handles
\* it leaves.  freed tells whether dp_netdev_free() ran; failed whether
\* the assertion open_cnt > 0 did not hold.
close(reg, hs, h) ==
    LET name == hs[h].dp
        cnt == reg[name].open_cnt - 1
    IN  IF reg[name].open_cnt <= 0
        THEN [reg |-> reg, hs |-> hs, freed |-> FALSE, failed |-> TRUE]
        ELSE IF cnt = 0 /\ reg[name].destroyed
        THEN [reg |-> [reg EXCEPT ![name] = NULL],
              hs |-> [hs EXCEPT ![h] = NULL],
              freed |-> TRUE, failed |-> FALSE]
        ELSE [reg |-> [reg EXCEPT ![name].open_cnt = cnt],
              hs |-> [hs EXCEPT ![h] = NULL],
              freed |-> FALSE, failed |-> FALSE]

\* The registry after dpif_netdev_destroy() on the handle in slot h.
destroy(reg, hs, h) == [reg EXCEPT ![hs[h].dp].destroyed = TRUE]

(***************************************************************************)
(* Upcall queues and the action executor.                                  *)
(***************************************************************************)
\* Arithmetic of unsigned int.
UInt(x) == x % (2 ^ UIntBits)

\* n_hit, n_missed and n_lost are long long; the model keeps StatBits bits
\* of them.
Stat(x) == x % (2 ^ StatBits)

\* dp_netdev_output_userspace() with > for >= in the test for a full queue.
dp_netdev_output_userspace_gt(dp, packet, queue_no, flow, arg) ==
    LET q == dp.queues[queue_no]
    IN  IF UInt(q.head - q.tail + 2 ^ UIntBits) > MAX_QUEUE_LEN
        THEN [dp EXCEPT !.n_lost = Stat(@ + 1)]
        ELSE LET upcall == [type |-> queue_no,
                            packet |-> packet,
                            key |-> odp_flow_key_from_flow(flow),
                            userdata |-> arg]
             IN  [dp EXCEPT
                    !.queues[queue_no].upcalls[BitAnd(q.head, QUEUE_MASK)] =
                        upcall,
                    !.queues[queue_no].head = UInt(q.head + 1)]

\* dp_netdev_output_userspace() without the test for a full queue.
dp_netdev_output_userspace_overwrite(dp, packet, queue_no, flow, arg) ==
    LET q == dp.queues[queue_no]
        upcall == [type |-> queue_no,
                   packet |-> packet,
                   key |-> odp_flow_key_from_flow(flow),
                   userdata |-> arg]
    IN  [dp EXCEPT
           !.queues[queue_no].upcalls[BitAnd(q.head, QUEUE_MASK)] = upcall,
           !.queues[queue_no].head = UInt(q.head + 1)]

\* The datapath after dp_netdev_output_userspace().
dp_netdev_output_userspace(dp, packet, queue_no, flow, arg) ==
    LET q == dp.queues[queue_no]
    IN  IF UInt(q.head - q.tail + 2 ^ UIntBits) >= MAX_QUEUE_LEN
        THEN [dp EXCEPT !.n_lost = Stat(@ + 1)]
        ELSE LET upcall == [type |-> queue_no,
                            packet |-> packet,
                            key |-> odp_flow_key_from_flow(flow),
                            userdata |-> arg]
             IN  [dp EXCEPT
                    !.queues[queue_no].upcalls[BitAnd(q.head, QUEUE_MASK)] =
                        upcall,
                    !.queues[queue_no].head = UInt(q.head + 1)]

\* What dp_netdev_output_userspace() returns.
output_userspace_ret(dp, queue_no) ==
    LET q == dp.queues[queue_no]
    IN  IF UInt(q.head - q.tail + 2 ^ UIntBits) >= MAX_QUEUE_LEN
        THEN "ENOBUFS"
        ELSE "OK"

\* find_nonempty_queue(): the scan from queue i on; the number of the
\* queue found, or NULL.
RECURSIVE find_nonempty_queue_from(_, _, _)
find_nonempty_queue_from(qs, mask, i) ==
    IF i >= N_QUEUES THEN NULL
    ELSE IF qs[i].head # qs[i].tail /\ BitAnd(mask, 2 ^ i) # 0
    THEN [queue_no |-> i]
    ELSE find_nonempty_queue_from(qs, mask, i + 1)

\* find_nonempty_queue() that listens to every class.
find_nonempty_queue_anymask(qs, mask) ==
    find_nonempty_queue_from(qs, 2 ^ N_QUEUES - 1, 0)

find_nonempty_queue(qs, mask) == find_nonempty_queue_from(qs, mask, 0)

\* dpif_netdev_recv_set_mask() and dpif_netdev_recv_get_mask() on a handle:
\* the handle after, and the mask stored through listen_mask.
recv_set_mask(dpif, listen_mask) == [dpif EXCEPT !.listen_mask = listen_mask]

recv_get_mask(dpif) == dpif.listen_mask

\* dpif_netdev_recv() that takes the upcall head points behind.
recv_found_newest(qs, q) ==
    IF q # NULL
    THEN [ret |-> "OK",
          upcall |-> qs[q.queue_no].upcalls[
                         BitAnd(UInt(qs[q.queue_no].head + 2 ^ UIntBits - 1),
                                QUEUE_MASK)],
          queues |-> [qs EXCEPT ![q.queue_no].tail = UInt(@ + 1)]]
    ELSE [ret |-> "EAGAIN", upcall |-> NULL, queues |-> qs]

\* What dpif_netdev_recv() returns on a handle with listen mask 'mask', the
\* upcall it stores and the queues it leaves.
recv_found(qs, q) ==
    IF q # NULL
    THEN [ret |-> "OK",
          upcall |-> qs[q.queue_no].upcalls[BitAnd(qs[q.queue_no].tail,
                                                   QUEUE_MASK)],
          queues |-> [qs EXCEPT ![q.queue_no].tail = UInt(@ + 1)]]
    ELSE [ret |-> "EAGAIN", upcall |-> NULL, queues |-> qs]

recv(qs, mask) == recv_found(qs, find_nonempty_queue(qs, mask))

\* dp_netdev_purge_queues() that stops after the first queue.
dp_netdev_purge_queues_first(dp) ==
    [dp EXCEPT !.queues[0].tail = dp.queues[0].head]

\* dp_netdev_purge_queues(): each tail is advanced until it meets head.
dp_netdev_purge_queues(dp) ==
    [dp EXCEPT !.queues = [i \in DOMAIN dp.queues |->
                              [dp.queues[i] EXCEPT !.tail = dp.queues[i].head]]]

\* eth_push_vlan() of lib/packets.c: a 4-byte tag after the two addresses.
eth_push_vlan(packet, tci) ==
    SubSeq(packet, 1, 2 * ETH_ADDR_LEN)
    \o Be16Bytes(ETH_TYPE_VLAN) \o Be16Bytes(tci)
    \o SubSeq(packet, 2 * ETH_ADDR_LEN + 1, Len(packet))

\* eth_pop_vlan() of lib/packets.c: the 4 bytes after the two addresses
\* removed.
eth_pop_vlan(packet) ==
    IF Len(packet) >= ETH_HEADER_LEN + 4
    THEN SubSeq(packet, 1, 2 * ETH_ADDR_LEN)
         \o SubSeq(packet, 2 * ETH_ADDR_LEN + 5, Len(packet))
    ELSE packet

UINT16_MAX == 65535
UINT32_MAX == 2 ^ RandBits - 1

\* What random_uint32() can return.
Draws == 0..UINT32_MAX

\* The ones-complement checksum arithmetic of lib/csum.c, on 16-bit words
\* in network order: csum_fold() adds the carries back in, csum_finish()
\* complements the folded sum.
RECURSIVE csum_fold(_)
csum_fold(sum) ==
    IF sum > UINT16_MAX THEN csum_fold((sum % 65536) + (sum \div 65536))
    ELSE sum

csum_finish(partial) == UINT16_MAX - csum_fold(partial)

\* The sum of the 16-bit words of the n bytes at offset o of p (n even).
RECURSIVE csum_continue(_, _, _, _)
csum_continue(partial, p, o, n) ==
    IF n < 2 THEN partial
    ELSE csum_continue(partial + Be16At(p, o), p, o + 2, n - 2)

\* csum(data, n): the checksum computed from scratch.
csum(p, o, n) == csum_finish(csum_continue(0, p, o, n))

\* recalc_csum16() that adds the new word without taking the old one out.
recalc_csum16_addonly(old_csum, old_u16, new_u16) ==
    csum_finish((UINT16_MAX - old_csum) + new_u16)

\* recalc_csum16(): the checksum after the word old_u16 of the data it
\* covers became new_u16, by equation 3 of RFC 1624.
recalc_csum16(old_csum, old_u16, new_u16) ==
    csum_finish((UINT16_MAX - old_csum) + (UINT16_MAX - old_u16) + new_u16)

\* recalc_csum32(): the same for a 32-bit field, given as its four bytes.
recalc_csum32(old_csum, old_u32, new_u32) ==
    recalc_csum16(recalc_csum16(old_csum, Be16At(old_u32, 2),
                                Be16At(new_u32, 2)),
                  Be16At(old_u32, 0), Be16At(new_u32, 0))

\* The packet with the bytes bs stored at offset o; what would be stored
\* past the packet's end is not part of the packet.
PutBytes(p, o, bs) ==
    [i \in 1..Len(p) |-> IF i > o /\ i <= o + Len(bs) THEN bs[i - o]
                         ELSE p[i]]

\* TRUE when the n bytes a header pointer addresses lie within the packet.
Inside(p, o, n) == o # NoPtr /\ o + n <= Len(p)

\* A header pointer after the packet's first byte moved by d bytes.
Moved(ptr, d) == IF ptr = NoPtr THEN NoPtr ELSE ptr + d

\* The state an action list is executed on: the datapath, the packet and
\* its l3, l4 and l7 pointers as flow_extract() left them in x, the packets
\* handed to netdev_send() so far, whether a pointer that addresses no
\* object of the program was dereferenced, and what random_uint32() returns.
ExecState(dp, packet, x, draw) ==
    [dp |-> dp, packet |-> packet, l3 |-> x.l3, l4 |-> x.l4, l7 |-> x.l7,
     sent |-> <<>>, oob |-> FALSE, draw |-> draw]

\* dp_netdev_output_port(): out_port is the action's 32-bit payload
\* truncated to uint16_t.
dp_netdev_output_port(st, prts, payload) ==
    LET out_port == payload % 65536
    IN  IF out_port >= MAX_PORTS THEN [st EXCEPT !.oob = TRUE]
        ELSE IF prts[out_port] # NULL
        THEN [st EXCEPT !.sent = Append(@, [port_no |-> out_port,
                                            packet |-> st.packet])]
        ELSE st

\* The USERSPACE attribute carries <<>> or <<userdata>>.
dp_netdev_action_userspace(st, key, a) ==
    LET userdata == IF a.arg = <<>> THEN 0 ELSE a.arg[1]
    IN  [st EXCEPT !.dp = dp_netdev_output_userspace(@, st.packet,
                                                     DPIF_UC_ACTION, key,
                                                     userdata)]

\* dp_netdev_set_dl(): packet->l2 is the packet's first byte.
dp_netdev_set_dl(p, eth_key) ==
    PutBytes(PutBytes(p, ETH_ADDR_LEN, eth_key.eth_src), 0, eth_key.eth_dst)

\* The transport checksum part of dp_netdev_set_ip_addr(): old is *addr.
set_ip_addr_l4(p, l3, l4, l7, old, new_addr) ==
    IF p[l3 + 10] = IPPROTO_TCP /\ l7 # NoPtr
    THEN PutBytes(p, l4 + 16,
                  Be16Bytes(recalc_csum32(Be16At(p, l4 + 16), old,
                                          new_addr)))
    ELSE IF p[l3 + 10] = IPPROTO_UDP /\ l7 # NoPtr /\ Be16At(p, l4 + 6) # 0
    THEN PutBytes(p, l4 + 6,
                  Be16Bytes(IF recalc_csum32(Be16At(p, l4 + 6), old,
                                             new_addr) = 0
                            THEN UINT16_MAX
                            ELSE recalc_csum32(Be16At(p, l4 + 6), old,
                                               new_addr)))
    ELSE p

\* The network header part of dp_netdev_set_ip_addr(), on the packet p1
\* the transport part left: addr is the field's offset in the header.
set_ip_addr_l3(p1, l3, addr, new_addr) ==
    PutBytes(PutBytes(p1, l3 + 10,
                      Be16Bytes(recalc_csum32(Be16At(p1, l3 + 10),
                                              BytesAt(p1, l3 + addr, 4),
                                              new_addr))),
             l3 + addr, new_addr)

dp_netdev_set_ip_addr(p, l3, l4, l7, addr, new_addr) ==
    set_ip_addr_l3(set_ip_addr_l4(p, l3, l4, l7, BytesAt(p, l3 + addr, 4),
                                  new_addr),
                   l3, addr, new_addr)

\* dp_netdev_set_ip_tos(): ip_tos is the low byte of the header's first
\* word.
dp_netdev_set_ip_tos(p, l3, new_tos) ==
    PutBytes(PutBytes(p, l3 + 10,
                      Be16Bytes(recalc_csum16(Be16At(p, l3 + 10), p[l3 + 2],
                                              new_tos))),
             l3 + 1, <<new_tos>>)

\* dp_netdev_set_ip_ttl(): ip_ttl is the high byte of the header's fifth
\* word.
dp_netdev_set_ip_ttl(p, l3, new_ttl) ==
    PutBytes(PutBytes(p, l3 + 10,
                      Be16Bytes(recalc_csum16(Be16At(p, l3 + 10),
                                              p[l3 + 9] * 256,
                                              new_ttl * 256))),
             l3 + 8, <<new_ttl>>)

\* The four steps of dp_netdev_set_ipv4(), each on the packet the one
\* before it left.
set_ipv4_src(p, l3, l4, l7, k) ==
    IF BytesAt(p, l3 + 12, 4) # k.ipv4_src
    THEN dp_netdev_set_ip_addr(p, l3, l4, l7, 12, k.ipv4_src) ELSE p

set_ipv4_dst(p, l3, l4, l7, k) ==
    IF BytesAt(p, l3 + 16, 4) # k.ipv4_dst
    THEN dp_netdev_set_ip_addr(p, l3, l4, l7, 16, k.ipv4_dst) ELSE p

set_ipv4_tos(p, l3, k) ==
    IF p[l3 + 2] # k.ipv4_tos THEN dp_netdev_set_ip_tos(p, l3, k.ipv4_tos)
    ELSE p

set_ipv4_ttl(p, l3, k) ==
    IF p[l3 + 9] # k.ipv4_ttl THEN dp_netdev_set_ip_ttl(p, l3, k.ipv4_ttl)
    ELSE p

dp_netdev_set_ipv4(p, l3, l4, l7, ipv4_key) ==
    set_ipv4_ttl(
        set_ipv4_tos(
            set_ipv4_dst(set_ipv4_src(p, l3, l4, l7, ipv4_key),
                         l3, l4, l7, ipv4_key),
            l3, ipv4_key),
        l3, ipv4_key)

\* dp_netdev_set_port(): port and csum are offsets in the packet.
dp_netdev_set_port(p, port, new_port, csum_off) ==
    PutBytes(PutBytes(p, csum_off,
                      Be16Bytes(recalc_csum16(Be16At(p, csum_off),
                                              Be16At(p, port), new_port))),
             port, Be16Bytes(new_port))

\* The two steps dp_netdev_set_tcp_port() and dp_netdev_set_udp_port()
\* share: csum_off is 16 for TCP and 6 for UDP.
set_src_port(p, l4, new_src, csum_off) ==
    IF Be16At(p, l4) # new_src
    THEN dp_netdev_set_port(p, l4, new_src, l4 + csum_off) ELSE p

set_dst_port(p, l4, new_dst, csum_off) ==
    IF Be16At(p, l4 + 2) # new_dst
    THEN dp_netdev_set_port(p, l4 + 2, new_dst, l4 + csum_off) ELSE p

dp_netdev_set_tcp_port(p, l4, tcp_key) ==
    set_dst_port(set_src_port(p, l4, tcp_key.tcp_src, 16), l4,
                 tcp_key.tcp_dst, 16)

dp_netdev_set_udp_port(p, l4, udp_key) ==
    set_dst_port(set_src_port(p, l4, udp_key.udp_src, 6), l4,
                 udp_key.udp_dst, 6)

\* TRUE when every header dp_netdev_set_ipv4() reads and writes lies
\* within the packet.
Ipv4HeadersInside(st) ==
    /\ Inside(st.packet, st.l3, IP_HEADER_LEN)
    /\ (st.packet[st.l3 + 10] = IPPROTO_TCP /\ st.l7 # NoPtr)
          => Inside(st.packet, st.l4, TCP_HEADER_LEN)
    /\ (st.packet[st.l3 + 10] = IPPROTO_UDP /\ st.l7 # NoPtr)
          => Inside(st.packet, st.l4, UDP_HEADER_LEN)

\* execute_set_action() that has no case for OVS_KEY_ATTR_TCP.
execute_set_action_notcp(st, a) ==
    CASE a.type \in {"TUN_ID", "PRIORITY"} -> st
      [] a.type = "ETHERNET" ->
           [st EXCEPT !.packet = dp_netdev_set_dl(@, a.arg)]
      [] a.type = "IPV4" ->
           IF Ipv4HeadersInside(st)
           THEN [st EXCEPT !.packet = dp_netdev_set_ipv4(@, st.l3, st.l4,
                                                         st.l7, a.arg)]
           ELSE [st EXCEPT !.oob = TRUE]
      [] a.type = "UDP" ->
           IF Inside(st.packet, st.l4, UDP_HEADER_LEN)
           THEN [st EXCEPT !.packet = dp_netdev_set_udp_port(@, st.l4,
                                                             a.arg)]
           ELSE [st EXCEPT !.oob = TRUE]
      [] OTHER -> [st EXCEPT !.dp.aborted = TRUE]

\* execute_set_action(): a is the key attribute nested in the SET action.
\* A header pointer that is NULL, or a header that is not wholly within
\* the packet, is dereferenced all the same; what that does to the bytes
\* of the packet is not modelled.
execute_set_action(st, a) ==
    CASE a.type \in {"TUN_ID", "PRIORITY"} -> st
      [] a.type = "ETHERNET" ->
           [st EXCEPT !.packet = dp_netdev_set_dl(@, a.arg)]
      [] a.type = "IPV4" ->
           IF Ipv4HeadersInside(st)
           THEN [st EXCEPT !.packet = dp_netdev_set_ipv4(@, st.l3, st.l4,
                                                         st.l7, a.arg)]
           ELSE [st EXCEPT !.oob = TRUE]
      [] a.type = "TCP" ->
           IF Inside(st.packet, st.l4, TCP_HEADER_LEN)
           THEN [st EXCEPT !.packet = dp_netdev_set_tcp_port(@, st.l4,
                                                             a.arg)]
           ELSE [st EXCEPT !.oob = TRUE]
      [] a.type = "UDP" ->
           IF Inside(st.packet, st.l4, UDP_HEADER_LEN)
           THEN [st EXCEPT !.packet = dp_netdev_set_udp_port(@, st.l4,
                                                             a.arg)]
           ELSE [st EXCEPT !.oob = TRUE]
      [] OTHER -> [st EXCEPT !.dp.aborted = TRUE]

\* The loop of dp_netdev_sample() over the attributes nested in the SAMPLE
\* action: skip is TRUE where the function returns at the probability
\* test, subactions is the last ACTIONS attribute seen or NULL.
RECURSIVE sample_walk(_, _, _)
sample_walk(st, attrs, subactions) ==
    IF attrs = <<>>
    THEN [st |-> st, skip |-> FALSE, subactions |-> subactions]
    ELSE CASE Head(attrs).type = "PROBABILITY" ->
                IF st.draw >= Head(attrs).arg
                THEN [st |-> st, skip |-> TRUE, subactions |-> subactions]
                ELSE sample_walk(st, Tail(attrs), subactions)
           [] Head(attrs).type = "ACTIONS" ->
                sample_walk(st, Tail(attrs), Head(attrs))
           [] OTHER ->
                [st |-> [st EXCEPT !.dp.aborted = TRUE], skip |-> TRUE,
                 subactions |-> subactions]

RECURSIVE dp_netdev_execute_actions(_, _, _, _)

\* dp_netdev_sample(), given what its loop returned: without an ACTIONS
\* attribute nl_attr_get_size() reads through a NULL pointer.
dp_netdev_sample(w, prts, key) ==
    IF w.skip THEN w.st
    ELSE IF w.subactions = NULL THEN [w.st EXCEPT !.oob = TRUE]
    ELSE dp_netdev_execute_actions(w.st, prts, key, w.subactions.arg)

\* One pass of the switch of dp_netdev_execute_actions().  A type that is
\* none of the switch's cases falls out of the switch: the switch has no
\* default.
execute_action(st, prts, key, a) ==
    CASE a.type = "OUTPUT" -> dp_netdev_output_port(st, prts, a.arg)
      [] a.type = "USERSPACE" -> dp_netdev_action_userspace(st, key, a)
      [] a.type = "PUSH_VLAN" ->
           [st EXCEPT !.packet =
                         eth_push_vlan(@, a.arg - BitAnd(a.arg, VLAN_CFI)),
                      !.l3 = Moved(@, 4), !.l4 = Moved(@, 4),
                      !.l7 = Moved(@, 4)]
      [] a.type = "POP_VLAN" ->
           IF eth_pop_vlan(st.packet) = st.packet THEN st
           ELSE [st EXCEPT !.packet = eth_pop_vlan(@),
                           !.l3 = Moved(@, -4), !.l4 = Moved(@, -4),
                           !.l7 = Moved(@, -4)]
      [] a.type = "SET" -> execute_set_action(st, a.arg)
      [] a.type = "SAMPLE" ->
           dp_netdev_sample(sample_walk(st, a.arg, NULL), prts, key)
      [] a.type \in {"UNSPEC", "MAX"} -> [st EXCEPT !.dp.aborted = TRUE]
      [] OTHER -> st

\* dp_netdev_execute_actions(): the actions in list order, up to the first
\* one that reaches NOT_REACHED().
dp_netdev_execute_actions(st, prts, key, actions) ==
    IF actions = <<>> \/ st.dp.aborted THEN st
    ELSE dp_netdev_execute_actions(execute_action(st, prts, key,
                                                  Head(actions)),
                                   prts, key, Tail(actions))

\* dp_netdev_flow_used() that does not stamp the entry.
dp_netdev_flow_used_nostamp(flow, key, packet, th_ctl, time) ==
    LET f1 == [flow EXCEPT !.packet_count = @ + 1,
                           !.byte_count = @ + Len(packet)]
    IN  IF key.dl_type = ETH_TYPE_IP /\ key.nw_proto = IPPROTO_TCP
        THEN [f1 EXCEPT !.tcp_ctl = BitOr(@, th_ctl)]
        ELSE f1

\* dp_netdev_flow_used(): th_ctl is the 16 bits found where the TCP header's
\* tcp_ctl would be, 12 bytes past packet->l4.
dp_netdev_flow_used(flow, key, packet, th_ctl, time) ==
    LET f1 == [flow EXCEPT !.used = time,
                           !.packet_count = @ + 1,
                           !.byte_count = @ + Len(packet)]
    IN  IF key.dl_type = ETH_TYPE_IP /\ key.nw_proto = IPPROTO_TCP
        THEN [f1 EXCEPT !.tcp_ctl = BitOr(@, th_ctl)]
        ELSE f1

\* TRUE when the tcp_ctl field of a TCP header at packet->l4 lies within
\* the packet's bytes.
CtlInPacket(packet, l4) == l4 # NoPtr /\ l4 + 14 <= Len(packet)

\* The datapath after dp_netdev_port_input() of a packet received on port
\* port_no at time 'time'.  stale is what a read of tcp_ctl past the
\* packet's end finds; crash tells whether the dereference of a pointer
\* that addresses no object brings the process down; draw is what
\* random_uint32() returns.
\* Its steps, each given what the steps before it computed: st is the
\* state the actions leave, f the entry after dp_netdev_flow_used(), flow
\* the entry found or NULL, x what flow_extract() returned.
port_input_executed(st, crash) ==
    IF st.dp.aborted THEN st.dp
    ELSE IF st.oob /\ crash
    THEN [st.dp EXCEPT !.aborted = TRUE, !.faulted = TRUE]
    ELSE [st.dp EXCEPT !.n_hit = Stat(@ + 1)]

port_input_used(dp, prts, packet, x, flow, f, crash, draw) ==
    port_input_executed(
        dp_netdev_execute_actions(
            ExecState([dp EXCEPT !.flow_table =
                          hmap_insert(hmap_remove(@, flow), f)],
                      packet, x, draw),
            prts, x.flow, f.actions),
        crash)

port_input_looked_up(dp, prts, packet, time, stale, crash, draw, x, flow) ==
    IF flow # NULL
    THEN port_input_used(
            dp, prts, packet, x, flow,
            dp_netdev_flow_used(flow, x.flow, packet,
                                IF CtlInPacket(packet, x.l4)
                                THEN Be16At(packet, x.l4 + 12) ELSE stale,
                                time),
            crash, draw)
    ELSE dp_netdev_output_userspace([dp EXCEPT !.n_missed = Stat(@ + 1)],
                                    packet, DPIF_UC_MISS, x.flow, 0)

port_input_extracted(dp, prts, packet, time, stale, crash, draw, x) ==
    port_input_looked_up(dp, prts, packet, time, stale, crash, draw, x,
                         dp_netdev_lookup_flow(dp.flow_table, x.flow))

dp_netdev_port_input(dp, prts, port_no, packet, time, stale, crash, draw) ==
    IF Len(packet) < ETH_HEADER_LEN THEN dp
    ELSE port_input_extracted(dp, prts, packet, time, stale, crash, draw,
                              flow_extract(packet, Zeros(4), Zeros(8),
                                           port_no))

\* The loop of dpif_netdev_run() from position pos of the port list:
\* netdev_recv() on the port at position i gives rxs[i].
RECURSIVE run_loop(_, _, _, _, _, _, _, _, _)
run_loop(dp, prts, plist, pos, rxs, time, stale, crash, draw) ==
    IF pos > Len(plist) \/ dp.aborted THEN dp
    ELSE run_loop(IF rxs[pos].error = "OK"
                  THEN dp_netdev_port_input(dp, prts, plist[pos],
                                            rxs[pos].packet, time, stale,
                                            crash, draw)
                  ELSE dp,
                  prts, plist, pos + 1, rxs, time, stale, crash, draw)

\* execute_done() of an execute that runs the actions on the caller's
\* packet instead of a copy.
execute_done_nocopy(st, packet, crash) ==
    [error |-> "OK",
     dp |-> IF ~st.dp.aborted /\ st.oob /\ crash
            THEN [st.dp EXCEPT !.aborted = TRUE, !.faulted = TRUE]
            ELSE st.dp,
     sent |-> st.sent, oob |-> st.oob, packet |-> st.packet,
     copy |-> st.packet]

\* dpif_netdev_execute(): what it returns, the datapath after it, the
\* packets it has sent, whether it has dereferenced a pointer that
\* addresses no object, the caller's packet after the call and the copy of
\* it as the actions left it.
\* The flow that flow_extract() fills in from the copy is overwritten by
\* the caller's key; crash and draw are as in dp_netdev_port_input().
execute_done(st, packet, crash) ==
    [error |-> "OK",
     dp |-> IF ~st.dp.aborted /\ st.oob /\ crash
            THEN [st.dp EXCEPT !.aborted = TRUE, !.faulted = TRUE]
            ELSE st.dp,
     sent |-> st.sent, oob |-> st.oob, packet |-> packet,
     copy |-> st.packet]

execute_keyed(dp, prts, k, actions, packet, crash, draw) ==
    IF k.error # "OK"
    THEN [error |-> k.error, dp |-> dp, sent |-> <<>>, oob |-> FALSE,
          packet |-> packet, copy |-> packet]
    ELSE execute_done(
            dp_netdev_execute_actions(
                ExecState(dp, packet,
                          flow_extract(packet, Zeros(4), Zeros(8),
                                       OFPP_NONE),
                          draw),
                prts, k.flow, actions),
            packet, crash)

execute(dp, prts, nl_key, actions, packet, crash, draw) ==
    IF Len(packet) < ETH_HEADER_LEN \/ Len(packet) > UINT16_MAX
    THEN [error |-> "EINVAL", dp |-> dp, sent |-> <<>>, oob |-> FALSE,
          packet |-> packet, copy |-> packet]
    ELSE execute_keyed(dp, prts, dpif_netdev_flow_from_nlattrs(nl_key),
                       actions, packet, crash, draw)

(***************************************************************************)
(* Inputs.                                                                 *)
(***************************************************************************)
MacA == <<2, 0, 0, 0, 0, 1>>
MacB == <<2, 0, 0, 0, 0, 2>>
Ip4A == <<10, 0, 0, 1>>
Ip4B == <<10, 0, 0, 2>>
Ip6A == <<254, 128>> \o Zeros(13) \o <<1>>
Ip6B == <<254, 128>> \o Zeros(13) \o <<2>>

EthHdr(type) == MacB \o MacA \o Be16Bytes(type)
Ip4Hdr(proto, len) ==
    <<69, 0>> \o Be16Bytes(len) \o <<0, 1, 0, 0, 64, proto, 0, 0>>
    \o Ip4A \o Ip4B
Ip6Hdr(nxt, len) == <<96, 0, 0, 0>> \o Be16Bytes(len) \o <<nxt, 64>>
                    \o Ip6A \o Ip6B
TcpHdr(flags) == Be16Bytes(1024) \o Be16Bytes(80) \o Zeros(8)
                 \o <<80, flags>> \o Zeros(6)

PktTcpSyn == EthHdr(ETH_TYPE_IP) \o Ip4Hdr(IPPROTO_TCP, 40) \o TcpHdr(2)
PktTcpAck == EthHdr(ETH_TYPE_IP) \o Ip4Hdr(IPPROTO_TCP, 40) \o TcpHdr(16)
PktTcp6Fin == EthHdr(ETH_TYPE_IPV6) \o Ip6Hdr(IPPROTO_TCP, 20) \o TcpHdr(1)
PktTcpTrunc == EthHdr(ETH_TYPE_IP) \o Ip4Hdr(IPPROTO_TCP, 40)
               \o Be16Bytes(1024) \o Be16Bytes(80)
PktShort == Zeros(10)

\* The packets the network devices deliver.
Packets == {PktTcpSyn, PktTcpAck, PktTcp6Fin, PktShort}

\* What netdev_recv() gives: a packet, or an error.
RxOutcomes == [error : {"OK"}, packet : Packets]
              \cup [error : {"EAGAIN"}, packet : {<<>>}]

\* The 16 bits a read past the end of the received packet may find in the
\* receive buffer.
StaleCtl == {0, 18}

KeyOf(packet, in_port) ==
    flow_extract(packet, Zeros(4), Zeros(8), in_port).flow

\* The keys callers supply: those of the packets above as received on the
\* local port, keys with a reserved and with an out-of-range input port,
\* and a stream that does not decode.
NlKeys ==
    {odp_flow_key_from_flow(KeyOf(pk, OVSP_LOCAL)) :
        pk \in {PktTcpSyn, PktTcp6Fin}}
    \cup {odp_flow_key_from_flow([KeyOf(PktTcpSyn, OVSP_LOCAL)
                                    EXCEPT !.in_port = n]) :
            n \in {MAX_PORTS, OFPP_LOCAL}}
    \cup {<<1, 2, 3>>}

\* The action lists callers supply.
ActionLists ==
    {<<>>,
     <<[type |-> "PUSH_VLAN", arg |-> 5],
       [type |-> "USERSPACE", arg |-> <<7>>],
       [type |-> "OUTPUT", arg |-> OVSP_LOCAL]>>,
     <<[type |-> "UNSPEC", arg |-> 0]>>}

PutFlags == {{}, {"CREATE"}, {"MODIFY"}, {"CREATE", "MODIFY"},
             {"MODIFY", "ZERO_STATS"}, {"CREATE", "MODIFY", "ZERO_STATS"}}

(***************************************************************************)
(* The operations.  A call is made only while the process is alive.        *)
(***************************************************************************)
\* The map callers expect after a call: a successful put binds the key, a
\* successful delete unbinds it.  A new binding, and one made with the
\* zero-stats flag, has seen no TCP flags.
Bound(map, nl_key) == \E m \in map : m.key = nl_key

Bind(map, nl_key, actions, flags) ==
    LET seen == IF Bound(map, nl_key) /\ "ZERO_STATS" \notin flags
                THEN (CHOOSE m \in map : m.key = nl_key).flags
                ELSE 0
    IN  {m \in map : m.key # nl_key}
        \cup {[key |-> nl_key, actions |-> actions, flags |-> seen]}

\* The TCP control flags of a packet that carries a TCP header over IPv4
\* or IPv6, and 0 for any other packet.
TcpFlagsAt(packet, x) ==
    IF /\ x.flow.dl_type \in {ETH_TYPE_IP, ETH_TYPE_IPV6}
       /\ x.flow.nw_proto = IPPROTO_TCP
       /\ x.l7 # NoPtr
    THEN Be16At(packet, x.l4 + 12) % 64
    ELSE 0

PacketTcpFlags(packet, in_port) ==
    TcpFlagsAt(packet, flow_extract(packet, Zeros(4), Zeros(8), in_port))

\* The map after the packets rxs[pos..] have been received: a packet of a
\* bound key adds its TCP flags to the binding.
Seen(map, k, flags) ==
    {IF m.key = k THEN [m EXCEPT !.flags = BitOr(@, flags)] ELSE m :
        m \in map}

RECURSIVE Observe(_, _, _, _)
Observe(map, plist, pos, rxs) ==
    IF pos > Len(plist) THEN map
    ELSE Observe(IF /\ rxs[pos].error = "OK"
                    /\ Len(rxs[pos].packet) >= ETH_HEADER_LEN
                 THEN Seen(map,
                           odp_flow_key_from_flow(
                               KeyOf(rxs[pos].packet, plist[pos])),
                           PacketTcpFlags(rxs[pos].packet, plist[pos]))
                 ELSE map,
                 plist, pos + 1, rxs)

Unbind(map, nl_key) == {m \in map : m.key # nl_key}

\* dpif_netdev_flow_get() changes nothing; what it returns is
\* flow_get(flow_table, nl_key).
dpif_netdev_flow_get(nl_key) ==
    /\ ~aborted
    /\ flow_get(flow_table, nl_key).ret \in {"OK", "ENOENT", "EINVAL"}
    /\ UNCHANGED vars

dpif_netdev_flow_put(flags, nl_key, actions) ==
    /\ ~aborted
    /\ LET r == flow_put(flow_table, flags, nl_key, actions)
       IN  /\ flow_table' = r.table
           /\ shadow' = IF r.ret = "OK"
                        THEN Bind(shadow, nl_key, actions, flags)
                        ELSE shadow
    /\ UNCHANGED <<queues, n_hit, n_missed, n_lost, portVars, now, aborted, faulted,
                   handleVars, pending, delivered,
                   port_changes, buf, wc>>

dpif_netdev_flow_del(nl_key) ==
    /\ ~aborted
    /\ LET r == flow_del(flow_table, nl_key)
       IN  /\ flow_table' = r.table
           /\ shadow' = IF r.ret = "OK" THEN Unbind(shadow, nl_key)
                        ELSE shadow
    /\ UNCHANGED <<queues, n_hit, n_missed, n_lost, portVars, now, aborted, faulted,
                   handleVars, pending, delivered,
                   port_changes, buf, wc>>

dpif_netdev_flow_flush ==
    /\ ~aborted
    /\ flow_table' = dp_netdev_flow_flush(flow_table)
    /\ shadow' = {}
    /\ UNCHANGED <<queues, n_hit, n_missed, n_lost, portVars, now, aborted, faulted,
                   handleVars, pending, delivered,
                   port_changes, buf, wc>>

\* The packets of rxs that reach the flow table lookup.
Looked(rxs) ==
    Cardinality({i \in DOMAIN rxs : /\ rxs[i].error = "OK"
                                    /\ Len(rxs[i].packet) >= ETH_HEADER_LEN})

\* The packets of rxs are within a budget of max lookups in a behaviour.
Within(rxs, max) == n_hit + n_missed + Looked(rxs) <= max

\* The upcalls a step has put in a queue: the slots that head has moved
\* over, read from the ring after the step.
Appended(q, q1) ==
    [i \in 1..UInt(q1.head - q.head + 2 ^ UIntBits) |->
        q1.upcalls[BitAnd(UInt(q.head + i - 1), QUEUE_MASK)]]

\* What the callers of recv are owed after a step that only enqueues.
Owed(pend, qs, qs1) ==
    [c \in DOMAIN pend |-> pend[c] \o Appended(qs[c], qs1[c])]

\* dpif_netdev_run(): one netdev_recv() on each port of the port list.
Becomes(dp) ==
    /\ flow_table' = dp.flow_table
    /\ queues' = dp.queues
    /\ n_hit' = dp.n_hit
    /\ n_missed' = dp.n_missed
    /\ n_lost' = dp.n_lost
    /\ aborted' = dp.aborted
    /\ faulted' = dp.faulted

dpif_netdev_run(rxs, stale, crash, draw) ==
    /\ ~aborted
    /\ Becomes(run_loop(DP, ports, port_list, 1, rxs, now, stale, crash,
                        draw))
    /\ shadow' = Observe(shadow, port_list, 1, rxs)
    /\ pending' = Owed(pending, queues, queues')
    /\ UNCHANGED <<portVars, now, handleVars, delivered,
                   port_changes, buf, wc>>

\* Handle h is open on the instance the model keeps whole.
IsOpen(h) == dpifs[h] # NULL /\ dpifs[h].dp = TheDp

dpif_netdev_recv_get_mask(h) ==
    /\ ~aborted
    /\ IsOpen(h)
    /\ recv_get_mask(dpifs[h]) \in Int
    /\ UNCHANGED vars

dpif_netdev_recv_set_mask(h, listen_mask) ==
    /\ ~aborted
    /\ IsOpen(h)
    /\ dpifs' = [dpifs EXCEPT ![h] = recv_set_mask(@, listen_mask)]
    /\ UNCHANGED <<dpVars, portVars, now, aborted, faulted, shadow, dp_netdevs,
                   pending, delivered,
                   port_changes, buf, wc>>

\* What the callers are owed after a recv that took from queue q: the
\* oldest upcall of that queue is owed no longer.
Taken(pend, q) ==
    IF q # NULL /\ pend[q.queue_no] # <<>>
    THEN [pend EXCEPT ![q.queue_no] = Tail(@)]
    ELSE pend

dpif_netdev_recv(h) ==
    /\ ~aborted
    /\ IsOpen(h)
    /\ queues' = recv(queues, dpifs[h].listen_mask).queues
    /\ pending' = Taken(pending,
                        find_nonempty_queue(queues, dpifs[h].listen_mask))
    /\ delivered' = IF recv(queues, dpifs[h].listen_mask).ret = "OK"
                    THEN recv(queues, dpifs[h].listen_mask).upcall
                    ELSE delivered
    /\ UNCHANGED <<flow_table, n_hit, n_missed, n_lost, portVars, now,
                   aborted, faulted, shadow, handleVars, port_changes, buf, wc>>

dpif_netdev_recv_purge(h) ==
    /\ ~aborted
    /\ IsOpen(h)
    /\ Becomes(dp_netdev_purge_queues(DP))
    /\ pending' = [c \in DOMAIN pending |-> <<>>]
    /\ UNCHANGED <<portVars, now, shadow, handleVars, delivered,
                   port_changes, buf, wc>>

dpif_netdev_execute(h, nl_key, actions, packet, crash, draw) ==
    /\ ~aborted
    /\ IsOpen(h)
    /\ Becomes(execute(DP, ports, nl_key, actions, packet, crash,
                       draw).dp)
    /\ pending' = Owed(pending, queues, queues')
    /\ UNCHANGED <<portVars, now, shadow, handleVars, delivered,
                   port_changes, buf, wc>>

\* The port variables become the port state ps.
PortsBecome(ps) ==
    /\ ports' = ps.ports
    /\ port_list' = ps.port_list
    /\ serial' = ps.serial
    /\ max_mtu' = ps.max_mtu

CurrentPorts == PortState(ports, port_list, serial, max_mtu)

\* The port changes each handle has not polled yet, after an add or a
\* delete that returned ret.
Changed(ret) ==
    [h \in Handles |-> IF ret = "OK" /\ IsOpen(h) THEN port_changes[h] + 1
                       ELSE port_changes[h]]

dpif_netdev_port_add(h, devname, type, nd) ==
    /\ ~aborted
    /\ IsOpen(h)
    /\ PortsBecome(port_add(CurrentPorts, devname, type, nd).ps)
    /\ port_changes' = Changed(port_add(CurrentPorts, devname, type, nd).ret)
    /\ UNCHANGED <<buf, wc>>
    /\ UNCHANGED <<dpVars, now, aborted, faulted, shadow, handleVars, pending, delivered>>

dpif_netdev_port_del(h, port_no) ==
    /\ ~aborted
    /\ IsOpen(h)
    /\ PortsBecome(port_del(CurrentPorts, port_no).ps)
    /\ port_changes' = Changed(port_del(CurrentPorts, port_no).ret)
    /\ UNCHANGED <<buf, wc>>
    /\ UNCHANGED <<dpVars, now, aborted, faulted, shadow, handleVars, pending, delivered>>

dpif_netdev_port_poll(h) ==
    /\ ~aborted
    /\ IsOpen(h)
    /\ dpifs' = [dpifs EXCEPT ![h] = port_poll(dpifs[h], serial).dpif]
    /\ port_changes' = [port_changes EXCEPT ![h] = 0]
    /\ UNCHANGED <<buf, wc>>
    /\ UNCHANGED <<dpVars, portVars, now, aborted, faulted, shadow, dp_netdevs,
                   pending, delivered>>

\* The port state of an instance that create_dp_netdev() has allocated,
\* and that state after its do_add_port() of the local port.
NoPorts == [n \in 0..(MAX_PORTS - 1) |-> NULL]

LocalAdded(name, nd) ==
    do_add_port(PortState(NoPorts, <<>>, 0, max_mtu), name, "internal",
                OVSP_LOCAL, nd)

\* The serial of the instance registered under name.
SerialOf(name) == IF name = TheDp THEN serial ELSE 1

\* The lowest free handle slot.
FreeSlot ==
    CHOOSE h \in Handles :
        dpifs[h] = NULL /\ \A g \in Handles : g < h => dpifs[g] # NULL

\* What dpif_netdev_open() does to the instance the model keeps whole when
\* it creates it, and to max_mtu when it creates another.
Created(r, name, nd) ==
    IF r.created /\ name = TheDp
    THEN /\ flow_table' = EmptyBag
         /\ queues' = [i \in 0..(N_QUEUES - 1) |-> EmptyQueue]
         /\ n_hit' = 0
         /\ n_missed' = 0
         /\ n_lost' = 0
         /\ PortsBecome(LocalAdded(name, nd).ps)
         /\ shadow' = {}
         /\ pending' = [c \in 0..(N_QUEUES - 1) |-> <<>>]
    ELSE /\ max_mtu' = IF r.created THEN LocalAdded(name, nd).ps.max_mtu
                       ELSE max_mtu
         /\ UNCHANGED <<dpVars, ports, port_list, serial, shadow, pending>>

Opened(r, name, nd) ==
    /\ dp_netdevs' = r.reg
    /\ dpifs' = r.hs
    /\ port_changes' = [h \in Handles |-> IF r.hs[h] = dpifs[h]
                                          THEN port_changes[h] ELSE 0]
    /\ UNCHANGED <<buf, wc>>
    /\ Created(r, name, nd)

dpif_netdev_open(class, name, create, nd) ==
    /\ ~aborted
    /\ \E h \in Handles : dpifs[h] = NULL
    /\ UNCHANGED delivered
    /\ Opened(open(dp_netdevs, dpifs, class, name, create,
                   LocalAdded(name, nd).ret,
                   IF dp_netdevs[name] = NULL
                   THEN LocalAdded(name, nd).ps.serial
                   ELSE SerialOf(name),
                   FreeSlot),
              name, nd)
    /\ UNCHANGED <<now, aborted, faulted>>

\* The port state after do_del_port() of each port of plist.
RECURSIVE free_ports(_, _)
free_ports(ps, plist) ==
    IF plist = <<>> THEN ps
    ELSE free_ports(do_del_port(ps, Head(plist)).ps, Tail(plist))

\* What dp_netdev_free() leaves of the instance the model keeps whole.
Freed(r, name) ==
    IF r.freed /\ name = TheDp
    THEN /\ flow_table' = dp_netdev_flow_flush(flow_table)
         /\ PortsBecome(free_ports(CurrentPorts, port_list))
         /\ queues' = dp_netdev_purge_queues(DP).queues
         /\ shadow' = {}
         /\ pending' = [c \in 0..(N_QUEUES - 1) |-> <<>>]
         /\ UNCHANGED <<n_hit, n_missed, n_lost>>
    ELSE UNCHANGED <<dpVars, portVars, shadow, pending>>

Closed(r, name) ==
    /\ dp_netdevs' = r.reg
    /\ dpifs' = r.hs
    /\ aborted' = r.failed
    /\ UNCHANGED faulted
    /\ Freed(r, name)

dpif_netdev_close(h) ==
    /\ ~aborted
    /\ dpifs[h] # NULL
    /\ Closed(close(dp_netdevs, dpifs, h), dpifs[h].dp)
    /\ port_changes' = [port_changes EXCEPT ![h] = 0]
    /\ UNCHANGED <<buf, wc>>
    /\ UNCHANGED <<now, delivered>>

dpif_netdev_destroy(h) ==
    /\ ~aborted
    /\ dpifs[h] # NULL
    /\ dp_netdevs' = destroy(dp_netdevs, dpifs, h)
    /\ UNCHANGED <<dpVars, portVars, now, aborted, faulted, shadow, dpifs, pending, delivered,
                   port_changes, buf, wc>>

\* Time passes.
Tick ==
    /\ now < MaxTime
    /\ now' = now + 1
    /\ UNCHANGED <<dpVars, portVars, aborted, faulted, shadow, handleVars, pending, delivered,
                   port_changes, buf, wc>>

Next ==
    \/ \E k \in NlKeys : dpif_netdev_flow_get(k)
    \/ \E fl \in PutFlags, k \in NlKeys, a \in ActionLists :
          dpif_netdev_flow_put(fl, k, a)
    \/ \E k \in NlKeys : dpif_netdev_flow_del(k)
    \/ dpif_netdev_flow_flush
    \/ \E rxs \in [1..Len(port_list) -> RxOutcomes], stale \in StaleCtl,
          crash \in BOOLEAN, draw \in Draws :
          Within(rxs, MaxPackets) /\ dpif_netdev_run(rxs, stale, crash, draw)
    \/ Tick

Spec == Init /\ [][Next]_vars

(***************************************************************************)
(* The upcall queues: packets miss, or hit flows whose actions send them   *)
(* to userspace, while handles set their listen masks, receive and purge.  *)
(***************************************************************************)
\* The listen masks callers set: every choice of the two classes.
Masks == 0..(2 ^ N_QUEUES - 1)

\* The action lists that send the packet to userspace.
UpcallLists ==
    {a \in ActionLists : \E i \in DOMAIN a : a[i].type = "USERSPACE"}

\* What the network device layer answers when a port is added.
NetdevAnswers ==
    [error : {"OK"}, mtu : {NULL, [value |-> 1500], [value |-> 576]}]
    \cup [error : {"ENODEV"}, mtu : {NULL}]

NetdevOk == [error |-> "OK", mtu |-> [value |-> ETH_PAYLOAD_MAX]]

NextUpcall ==
    \/ \E k \in NlKeys, a \in UpcallLists :
          dpif_netdev_flow_put({"CREATE"}, k, a)
    \/ \E rxs \in [1..Len(port_list) -> RxOutcomes], stale \in StaleCtl,
          crash \in BOOLEAN, draw \in Draws :
          Within(rxs, MaxUpcalls) /\ dpif_netdev_run(rxs, stale, crash, draw)
    \/ dpif_netdev_open("netdev", TheDp, FALSE, NetdevOk)
    \/ \E h \in Handles, m \in Masks : dpif_netdev_recv_set_mask(h, m)
    \/ \E h \in Handles : dpif_netdev_recv_get_mask(h)
    \/ \E h \in Handles : dpif_netdev_recv(h)
    \/ \E h \in Handles : dpif_netdev_recv_purge(h)

SpecUpcall == Init /\ [][NextUpcall]_vars


(***************************************************************************)
(* What callers can observe of the table, stated without the lookup.       *)
(***************************************************************************)
\* The significant prefix of a key.
SigPrefix(f) == SubSeq(FlowBytes(f), 1, FLOW_SIG_SIZE)

SameKey(a, b) == SigPrefix(a) = SigPrefix(b)

Present(table, f) == \E e \in BagToSet(table) : SameKey(e.key, f)

EntryOf(table, f) == CHOOSE e \in BagToSet(table) : SameKey(e.key, f)

StatsOf(e) == [n_packets |-> e.packet_count, n_bytes |-> e.byte_count,
               used |-> e.used, tcp_flags |-> e.tcp_ctl % 64]

\* The entries of a table other than the one for key f.
Others(table, f) == {e \in BagToSet(table) : ~SameKey(e.key, f)}

AtCapacity(table) == BagCardinality(table) = MAX_FLOWS

\* A key the datapath accepts.
ValidKey(k) == dpif_netdev_flow_from_nlattrs(k).error = "OK"

FlowOf(k) == odp_flow_key_to_flow(k).flow

(***************************************************************************)
(* C1..C10: the flow table and packet input.                               *)
(***************************************************************************)
\* C1: in every reachable state the flow table holds at most MAX_FLOWS
\* entries, and a put with the create flag for an absent key on a table
\* that already holds MAX_FLOWS entries returns EFBIG and adds nothing.
C1_Capacity ==
    /\ BagCardinality(flow_table) <= MAX_FLOWS
    /\ \A fl \in PutFlags, k \in NlKeys, a \in ActionLists :
          (/\ ValidKey(k)
           /\ "CREATE" \in fl
           /\ ~Present(flow_table, FlowOf(k))
           /\ AtCapacity(flow_table))
          => LET r == flow_put(flow_table, fl, k, a)
             IN  r.ret = "EFBIG" /\ r.table = flow_table

\* A full table, and a create of an absent key that is refused on it.
C1_Witness ==
    /\ AtCapacity(flow_table)
    /\ \E k \in NlKeys :
          /\ ValidKey(k)
          /\ ~Present(flow_table, FlowOf(k))
          /\ flow_put(flow_table, {"CREATE"}, k, <<>>).ret = "EFBIG"

\* C2: the flow table never holds two entries whose keys are equal on the
\* significant prefix, and a put adds an entry only for a key the table did
\* not hold.
C2_KeysUnique ==
    /\ \A e \in BagToSet(flow_table) : CopiesIn(e, flow_table) = 1
    /\ \A e1, e2 \in BagToSet(flow_table) :
          SameKey(e1.key, e2.key) => e1 = e2
    /\ \A fl \in PutFlags, k \in NlKeys, a \in ActionLists :
          LET r == flow_put(flow_table, fl, k, a)
          IN  BagCardinality(r.table) > BagCardinality(flow_table)
              => ~Present(flow_table, FlowOf(k))

\* Two entries, and a put of a key the table holds that adds nothing.
C2_Witness ==
    /\ BagCardinality(flow_table) = 2
    /\ \E k \in NlKeys, a \in ActionLists :
          /\ Present(flow_table, FlowOf(k))
          /\ LET r == flow_put(flow_table, {"CREATE", "MODIFY"}, k, a)
             IN  r.ret = "OK" /\ BagCardinality(r.table) = 2

\* C3: get(K) of a key K returns the actions of the most recent successful
\* put of K, and ENOENT when K was never successfully put or was deleted or
\* flushed since; shadow records what the successful puts, deletes and
\* flushes so far bind.
C3_TableIsMap ==
    /\ \A m \in shadow : ValidKey(m.key)
    /\ \A k \in NlKeys :
          ValidKey(k) =>
            LET g == flow_get(flow_table, k)
            IN  IF \E m \in shadow : m.key = k
                THEN /\ g.ret = "OK"
                     /\ \A m \in shadow : m.key = k => g.actions = m.actions
                ELSE g.ret = "ENOENT"

\* After packets have hit: one key bound to a non-empty action list that
\* get returns, and another key that is not bound and is not found.
C3_Witness ==
    /\ \E m \in shadow :
          /\ m.actions # <<>>
          /\ flow_get(flow_table, m.key).actions = m.actions
    /\ \E k \in NlKeys :
          /\ ValidKey(k)
          /\ flow_get(flow_table, k).ret = "ENOENT"
    /\ n_hit > 0

\* C4: for a validly decoded key, put returns EEXIST exactly when the key
\* is present and the modify flag is not set, ENOENT exactly when the key
\* is absent and the create flag is not set, EFBIG exactly when the key is
\* absent, the create flag is set and the table is at capacity, and
\* succeeds in every other case.
C4_PutErrors ==
    \A fl \in PutFlags, k \in NlKeys, a \in ActionLists :
       ValidKey(k) =>
         LET r == flow_put(flow_table, fl, k, a)
             present == Present(flow_table, FlowOf(k))
             eexist == present /\ "MODIFY" \notin fl
             enoent == ~present /\ "CREATE" \notin fl
             efbig == ~present /\ "CREATE" \in fl /\ AtCapacity(flow_table)
         IN  /\ r.ret = "EEXIST" <=> eexist
             /\ r.ret = "ENOENT" <=> enoent
             /\ r.ret = "EFBIG" <=> efbig
             /\ r.ret = "OK" <=> ~(eexist \/ enoent \/ efbig)

\* A state in which puts with each of the four outcomes are possible.
C4_Witness ==
    \A ret \in {"OK", "EEXIST", "ENOENT", "EFBIG"} :
       \E fl \in PutFlags, k \in NlKeys :
          ValidKey(k) /\ flow_put(flow_table, fl, k, <<>>).ret = ret

\* The input port of a key is neither below MAX_PORTS nor reserved.
BadInPort(f) ==
    ~(f.in_port < MAX_PORTS) /\ f.in_port \notin {OFPP_LOCAL, OFPP_NONE}

\* C5: a get, put or delete that returns an error leaves the flow table as
\* it was; a key that does not decode, or whose in_port is neither below
\* MAX_PORTS nor LOCAL nor NONE, gets EINVAL from each of them.
C5_ErrorsChangeNothing ==
    /\ \A fl \in PutFlags, k \in NlKeys, a \in ActionLists :
          LET r == flow_put(flow_table, fl, k, a)
          IN  /\ r.ret \in {"OK", "EINVAL", "ENOENT", "EEXIST", "EFBIG"}
              /\ r.ret # "OK" => r.table = flow_table
    /\ \A k \in NlKeys :
          LET r == flow_del(flow_table, k)
          IN  /\ r.ret \in {"OK", "EINVAL", "ENOENT"}
              /\ r.ret # "OK" => r.table = flow_table
    /\ \A k \in NlKeys :
          (odp_flow_key_to_flow(k).error \/ BadInPort(FlowOf(k))) =>
             /\ flow_get(flow_table, k).ret = "EINVAL"
             /\ flow_del(flow_table, k) =
                   [ret |-> "EINVAL", table |-> flow_table, stats |-> NULL]
             /\ \A fl \in PutFlags, a \in ActionLists :
                   flow_put(flow_table, fl, k, a) =
                      [ret |-> "EINVAL", table |-> flow_table,
                       stats |-> NULL]

\* A table with statistics to lose, on which a key that does not decode
\* and a key with an out-of-range input port are both refused.
C5_Witness ==
    /\ \E e \in BagToSet(flow_table) : e.packet_count > 0
    /\ \E k \in NlKeys :
          /\ odp_flow_key_to_flow(k).error
          /\ flow_put(flow_table, {"CREATE"}, k, <<>>).ret = "EINVAL"
    /\ \E k \in NlKeys :
          /\ ~odp_flow_key_to_flow(k).error
          /\ BadInPort(FlowOf(k))
          /\ flow_del(flow_table, k).ret = "EINVAL"


\* C6: a put with the modify flag on a key the table holds succeeds, puts
\* the given actions in the entry and reports the entry's statistics as they
\* were before the call; with the zero-stats flag the entry's packet count,
\* byte count, last-used time and TCP flags are zero afterwards and a get
\* reports zeros, without it they are what they were.  A successful create
\* reports zero statistics and the new entry starts with zero statistics.
C6_ModifyAndCreateStats ==
    \A fl \in PutFlags, k \in NlKeys, a \in ActionLists :
       ValidKey(k) =>
         LET r == flow_put(flow_table, fl, k, a)
             f == FlowOf(k)
             old == EntryOf(flow_table, f)
             new == EntryOf(r.table, f)
         IN  /\ (Present(flow_table, f) /\ "MODIFY" \in fl) =>
                  /\ r.ret = "OK"
                  /\ r.stats = StatsOf(old)
                  /\ Present(r.table, f)
                  /\ new.actions = a
                  /\ flow_get(r.table, k).actions = a
                  /\ IF "ZERO_STATS" \in fl
                     THEN /\ new.packet_count = 0
                          /\ new.byte_count = 0
                          /\ new.used = 0
                          /\ new.tcp_ctl % 64 = 0
                          /\ flow_get(r.table, k).stats = ZeroStats
                     ELSE /\ StatsOf(new) = StatsOf(old)
                          /\ flow_get(r.table, k).stats = StatsOf(old)
             /\ (~Present(flow_table, f) /\ r.ret = "OK") =>
                  /\ r.stats = ZeroStats
                  /\ Present(r.table, f)
                  /\ StatsOf(new) = ZeroStats
                  /\ flow_get(r.table, k).stats = ZeroStats

\* An entry that TCP packets have hit, so that its statistics, TCP flags
\* included, are not zero, and a modify with and without zero-stats on it.
C6_Witness ==
    \E k \in NlKeys :
       /\ ValidKey(k)
       /\ Present(flow_table, FlowOf(k))
       /\ LET e == EntryOf(flow_table, FlowOf(k))
          IN  /\ e.packet_count > 0
              /\ e.tcp_ctl % 64 # 0
              /\ e.used > 0
       /\ flow_put(flow_table, {"MODIFY", "ZERO_STATS"}, k, <<>>).stats
             # ZeroStats
       /\ flow_put(flow_table, {"MODIFY"}, k, <<>>).ret = "OK"

\* C7: delete of a key the table holds removes that entry and no other,
\* so that the count drops by one and every other entry is as it was, and
\* reports the removed entry's statistics; delete of a key the table does
\* not hold returns ENOENT.
C7_Delete ==
    \A k \in NlKeys :
       ValidKey(k) =>
         LET r == flow_del(flow_table, k)
             f == FlowOf(k)
         IN  IF Present(flow_table, f)
             THEN /\ r.ret = "OK"
                  /\ r.stats = StatsOf(EntryOf(flow_table, f))
                  /\ ~Present(r.table, f)
                  /\ BagCardinality(r.table) = BagCardinality(flow_table) - 1
                  /\ BagToSet(r.table) = Others(flow_table, f)
                  /\ \A e \in BagToSet(r.table) : CopiesIn(e, r.table) = 1
             ELSE r.ret = "ENOENT" /\ r.table = flow_table

\* Two entries, one of them hit by a packet, and a key that is not held.
C7_Witness ==
    /\ BagCardinality(flow_table) = 2
    /\ \E k \in NlKeys :
          /\ ValidKey(k)
          /\ Present(flow_table, FlowOf(k))
          /\ flow_del(flow_table, k).stats.n_packets > 0
    /\ \E k \in NlKeys :
          ValidKey(k) /\ flow_del(flow_table, k).ret = "ENOENT"

\* The number of records in a queue, and the records oldest first.
QueueLen(q) == (q.head - q.tail + 2 ^ UIntBits) % (2 ^ UIntBits)

QueueRecords(q) ==
    [i \in 1..QueueLen(q) |-> q.upcalls[(q.tail + i - 1) % MAX_QUEUE_LEN]]

\* C8: when a packet of at least ETH_HEADER_LEN bytes is received whose
\* extracted key is the key of an entry, and the entry's actions run to
\* their end, that entry's packet count is one more, its byte count is more
\* by the size of the packet as received, its last-used time is the current
\* time, n_hit is one more, n_missed and the miss queue are as they were,
\* and every other entry is as it was.
C8_Hit ==
    \A i \in DOMAIN port_list, pk \in Packets, stale \in StaleCtl,
       crash \in BOOLEAN, draw \in Draws :
       LET key == KeyOf(pk, port_list[i])
           dp == dp_netdev_port_input(DP, ports, port_list[i], pk, now,
                                      stale, crash, draw)
           old == EntryOf(flow_table, key)
           new == EntryOf(dp.flow_table, key)
       IN  (/\ ~aborted
            /\ Len(pk) >= ETH_HEADER_LEN
            /\ Present(flow_table, key)
            /\ ~dp.aborted)
           => /\ Present(dp.flow_table, key)
              /\ new.packet_count = old.packet_count + 1
              /\ new.byte_count = old.byte_count + Len(pk)
              /\ new.used = now
              /\ new.actions = old.actions
              /\ dp.n_hit = n_hit + 1
              /\ dp.n_missed = n_missed
              /\ dp.queues[DPIF_UC_MISS] = queues[DPIF_UC_MISS]
              /\ Others(dp.flow_table, key) = Others(flow_table, key)
              /\ BagCardinality(dp.flow_table) = BagCardinality(flow_table)

\* Two packets have hit an entry whose actions change the packet, a second
\* entry has not been hit, and a further packet would hit.
C8_Witness ==
    /\ n_hit = 2
    /\ n_missed = 0
    /\ \E e \in BagToSet(flow_table) :
          /\ e.packet_count = 2
          /\ e.byte_count = 2 * Len(PktTcpSyn)
          /\ e.used = now
          /\ \E j \in DOMAIN e.actions : e.actions[j].type = "PUSH_VLAN"
    /\ \E e \in BagToSet(flow_table) : e.packet_count = 0

\* C9: when a packet of at least ETH_HEADER_LEN bytes is received whose
\* extracted key is the key of no entry, n_missed is one more, n_hit and the
\* flow table are as they were, nothing an action does has happened, and
\* the miss queue has one more record, of class miss with the packet, the
\* extracted key and userdata 0, at its end; or, when the miss queue is
\* full, n_lost is one more and no queue has changed.
C9_Miss ==
    \A i \in DOMAIN port_list, pk \in Packets, stale \in StaleCtl,
       crash \in BOOLEAN, draw \in Draws :
       LET key == KeyOf(pk, port_list[i])
           dp == dp_netdev_port_input(DP, ports, port_list[i], pk, now,
                                      stale, crash, draw)
           q == queues[DPIF_UC_MISS]
       IN  (/\ ~aborted
            /\ Len(pk) >= ETH_HEADER_LEN
            /\ ~Present(flow_table, key))
           => /\ dp.n_missed = n_missed + 1
              /\ dp.n_hit = n_hit
              /\ dp.flow_table = flow_table
              /\ ~dp.aborted
              /\ dp.queues[DPIF_UC_ACTION] = queues[DPIF_UC_ACTION]
              /\ IF QueueLen(q) < MAX_QUEUE_LEN
                 THEN /\ dp.n_lost = n_lost
                      /\ LET recs == QueueRecords(dp.queues[DPIF_UC_MISS])
                             rec == recs[Len(recs)]
                         IN  /\ Len(recs) = QueueLen(q) + 1
                             /\ SubSeq(recs, 1, QueueLen(q)) = QueueRecords(q)
                             /\ rec.type = DPIF_UC_MISS
                             /\ rec.packet = pk
                             /\ ~odp_flow_key_to_flow(rec.key).error
                             /\ FlowOf(rec.key) = key
                             /\ rec.userdata = 0
                 ELSE /\ dp.n_lost = n_lost + 1
                      /\ dp.queues = queues

\* Packets have missed while entries were installed: the first was queued,
\* a later one found the miss queue full and was lost.
C9_Witness ==
    /\ n_missed >= 2
    /\ n_hit = 0
    /\ n_lost >= 1
    /\ flow_table # EmptyBag
    /\ QueueLen(queues[DPIF_UC_MISS]) = MAX_QUEUE_LEN
    /\ QueueRecords(queues[DPIF_UC_MISS])[1].userdata = 0

\* C10: the TCP flags an entry reports are the OR of the TCP control flags
\* of the packets with a TCP header, over IPv4 or over IPv6, that hit it
\* since it was created or last zeroed.
C10_TcpFlags ==
    ~aborted =>
       \A m \in shadow :
          LET g == flow_get(flow_table, m.key)
          IN  g.ret = "OK" /\ g.stats.tcp_flags = m.flags

\* C11: in every reachable state each upcall queue holds at most
\* MAX_QUEUE_LEN records, and dp_netdev_output_userspace() onto a queue that
\* holds MAX_QUEUE_LEN records returns ENOBUFS, makes n_lost one more and
\* leaves both queues, rings included, as they were.
C11_QueueBound ==
    /\ \A c \in 0..(N_QUEUES - 1) : QueueLen(queues[c]) <= MAX_QUEUE_LEN
    /\ \A c \in 0..(N_QUEUES - 1), pk \in Packets, arg \in {0, 7} :
          LET dp == dp_netdev_output_userspace(DP, pk, c,
                                               KeyOf(pk, OVSP_LOCAL), arg)
          IN  QueueLen(queues[c]) = MAX_QUEUE_LEN
              => /\ output_userspace_ret(DP, c) = "ENOBUFS"
                 /\ dp.n_lost = n_lost + 1
                 /\ dp.queues = queues
                 /\ dp.flow_table = flow_table
                 /\ dp.n_hit = n_hit
                 /\ dp.n_missed = n_missed

\* Packets sent to userspace by a flow's actions have filled the action
\* queue, and a further one was refused and counted as lost.
C11_Witness ==
    /\ QueueLen(queues[DPIF_UC_ACTION]) = MAX_QUEUE_LEN
    /\ n_hit > MAX_QUEUE_LEN
    /\ n_lost >= 1
    /\ \A i \in 1..MAX_QUEUE_LEN :
          QueueRecords(queues[DPIF_UC_ACTION])[i].type = DPIF_UC_ACTION

\* C12: within a class recv delivers the upcalls in the order they were
\* enqueued, each at most once, and none that was not enqueued: in every
\* reachable state each queue holds, oldest first, exactly the upcalls that
\* were enqueued on it and have been neither received nor purged, and a
\* recv through any listen mask that returns an upcall returns the oldest of
\* them in its class, removes that one and leaves the rest in order.
C12_Fifo ==
    /\ \A c \in 0..(N_QUEUES - 1) : QueueRecords(queues[c]) = pending[c]
    /\ \A mask \in Masks :
          LET r == recv(queues, mask)
          IN  r.ret = "OK"
              => \E c \in 0..(N_QUEUES - 1) :
                    /\ pending[c] # <<>>
                    /\ r.upcall = Head(pending[c])
                    /\ r.upcall.type = c
                    /\ QueueRecords(r.queues[c]) = Tail(pending[c])
                    /\ \A d \in 0..(N_QUEUES - 1) :
                          d # c => r.queues[d] = queues[d]

\* An upcall has been received from the miss queue and two that differ
\* wait in it, the newer in the ring slot the received one had.
C12_Witness ==
    /\ delivered # NULL
    /\ delivered.type = DPIF_UC_MISS
    /\ queues[DPIF_UC_MISS].tail = 1
    /\ QueueLen(queues[DPIF_UC_MISS]) = 2
    /\ pending[DPIF_UC_MISS][1].packet # pending[DPIF_UC_MISS][2].packet
    /\ recv(queues, 2 ^ DPIF_UC_MISS).upcall = pending[DPIF_UC_MISS][1]

\* Class c is selected by a listen mask.
Selects(mask, c) == BitAnd(mask, 2 ^ c) # 0

\* C13: recv returns an upcall only of a class whose bit is set in the
\* listen mask of the handle; it returns EAGAIN exactly when every class
\* the mask selects is empty, and then leaves the queues as they were.  A
\* handle that open has just made has listen mask 0, so that recv on it
\* returns EAGAIN, and get-mask after set-mask returns the mask set.
C13_ListenMask ==
    /\ \A mask \in 0..(2 ^ (N_QUEUES + 1) - 1) :
          LET r == recv(queues, mask)
          IN  /\ r.ret \in {"OK", "EAGAIN"}
              /\ r.ret = "OK" => Selects(mask, r.upcall.type)
              /\ r.ret = "EAGAIN"
                 <=> \A c \in 0..(N_QUEUES - 1) :
                        Selects(mask, c) => QueueLen(queues[c]) = 0
              /\ r.ret = "EAGAIN" => r.queues = queues
    /\ \A h \in Handles :
          IsOpen(h)
          => /\ recv(queues, recv_get_mask(dpifs[h])).ret = "OK"
                => Selects(dpifs[h].listen_mask,
                           recv(queues, recv_get_mask(dpifs[h])).upcall.type)
             /\ \A m \in 0..(2 ^ (N_QUEUES + 1) - 1) :
                   recv_get_mask(recv_set_mask(dpifs[h], m)) = m
    /\ \A class \in Classes, name \in Names, create \in BOOLEAN,
          nd \in NetdevAnswers :
          (\E h \in Handles : dpifs[h] = NULL)
          => LET r == open(dp_netdevs, dpifs, class, name, create,
                           LocalAdded(name, nd).ret, 1, FreeSlot)
             IN  r.ret = "OK"
                 => /\ recv_get_mask(r.hs[FreeSlot]) = 0
                    /\ recv(queues, recv_get_mask(r.hs[FreeSlot])).ret
                       = "EAGAIN"

\* An upcall waits in the miss queue and none in the action queue.  One
\* handle listens to the action class alone and has received an upcall of
\* that class; the other has been opened and its mask never set.  recv
\* answers EAGAIN to both.
C13_Witness ==
    /\ QueueLen(queues[DPIF_UC_MISS]) >= 1
    /\ QueueLen(queues[DPIF_UC_ACTION]) = 0
    /\ IsOpen(1) /\ IsOpen(2)
    /\ dpifs[1].listen_mask = 2 ^ DPIF_UC_ACTION
    /\ dpifs[2].listen_mask = 0
    /\ delivered # NULL
    /\ delivered.type = DPIF_UC_ACTION
    /\ recv(queues, dpifs[1].listen_mask).ret = "EAGAIN"
    /\ recv(queues, dpifs[2].listen_mask).ret = "EAGAIN"


\* C15: recv_purge on a handle, whatever its listen mask, leaves both
\* queues of the datapath empty, and the flow table and the counters of the
\* datapath as they were.
C15_Purge ==
    \A h \in Handles :
        IsOpen(h)
        => /\ \A c \in 0..(N_QUEUES - 1) :
                 /\ QueueLen(dp_netdev_purge_queues(DP).queues[c]) = 0
                 /\ QueueRecords(dp_netdev_purge_queues(DP).queues[c]) = <<>>
                 /\ dp_netdev_purge_queues(DP).queues[c].head = queues[c].head
           /\ [dp_netdev_purge_queues(DP) EXCEPT !.queues = queues] = DP

\* Upcalls of both classes have been queued and none has been received,
\* yet both queues are empty and nothing is owed: a purge has taken them,
\* through a handle that listens to no class.
C15_Witness ==
    /\ \A c \in 0..(N_QUEUES - 1) :
          /\ queues[c].head > 0
          /\ QueueLen(queues[c]) = 0
          /\ pending[c] = <<>>
    /\ delivered = NULL
    /\ n_hit > 0 /\ n_missed > 0
    /\ \A h \in Handles : IsOpen(h) => dpifs[h].listen_mask = 0


(***************************************************************************)
(* A handle that keeps calling recv.  Handle 1 listens to both classes     *)
(* once its mask is set; packets of flows not in the table keep arriving   *)
(* on the local port and packets keep being executed with a USERSPACE      *)
(* action.  The caller of recv is scheduled again and again, which is      *)
(* weak fairness of its step; nothing is assumed of the other steps.       *)
(***************************************************************************)
AllClasses == 2 ^ N_QUEUES - 1

MissRx == [i \in 1..1 |-> [error |-> "OK", packet |-> PktTcp6Fin]]

NextStarve ==
    \/ dpif_netdev_recv_set_mask(1, AllClasses)
    \/ port_list = <<OVSP_LOCAL>> /\ dpif_netdev_run(MissRx, 0, FALSE, 0)
    \/ dpif_netdev_execute(1,
                           odp_flow_key_from_flow(KeyOf(PktTcpSyn, OVSP_LOCAL)),
                           <<[type |-> "USERSPACE", arg |-> <<7>>]>>,
                           PktTcpSyn, FALSE, 0)
    \/ dpif_netdev_recv(1)

SpecStarve ==
    Init /\ [][NextStarve]_vars /\ WF_vars(dpif_netdev_recv(1))

\* Handle 1 listens to class c and an upcall of class c waits.
Waiting(c) ==
    /\ IsOpen(1)
    /\ Selects(dpifs[1].listen_mask, c)
    /\ QueueLen(queues[c]) > 0

\* An upcall of class c is delivered or dropped from its queue.
Taking(c) == queues'[c].tail # queues[c].tail

\* C14: an upcall that waits in a class the handle listens to is delivered
\* in the end, when the handle keeps calling recv, also while upcalls of
\* the other class it listens to keep being queued between the calls.  An
\* upcall waits for ever exactly when, from some point on, its class
\* always waits and nothing is taken from its queue any more.
C14_NoStarvation ==
    \A c \in 0..(N_QUEUES - 1) : <>[]Waiting(c) => []<><<Taking(c)>>_vars

\* The same of the class that find_nonempty_queue() looks at first.
MissNotStarved ==
    <>[]Waiting(DPIF_UC_MISS) => []<><<Taking(DPIF_UC_MISS)>>_vars

(***************************************************************************)
(* The life of datapath instances: open, close and destroy by name, and    *)
(* flows put in the instance the model keeps whole, which its teardown     *)
(* frees.                                                                  *)
(***************************************************************************)
NextLife ==
    \/ \E class \in Classes, name \in Names, create \in BOOLEAN,
          nd \in NetdevAnswers : dpif_netdev_open(class, name, create, nd)
    \/ \E h \in Handles : dpif_netdev_close(h)
    \/ \E h \in Handles : dpif_netdev_destroy(h)
    \/ \E h \in Handles, k \in NlKeys :
          IsOpen(h) /\ dpif_netdev_flow_put({"CREATE"}, k, <<>>)

SpecLife == Init /\ [][NextLife]_vars

\* The handles open on the instance registered under name, and the open
\* count a registry keeps for that name.
HandlesOn(name) == {h \in Handles : dpifs[h] # NULL /\ dpifs[h].dp = name}

OpenCount(reg, name) == IF reg[name] = NULL THEN 0 ELSE reg[name].open_cnt

\* The registry and the handles agree: a handle is open only on a
\* registered instance, whose open count is the number of its handles, and
\* an instance whose destroy was requested has a handle open.
Registered ==
    \A name \in Names :
        /\ OpenCount(dp_netdevs, name) = Cardinality(HandlesOn(name))
        /\ (dp_netdevs[name] # NULL /\ dp_netdevs[name].destroyed)
           => HandlesOn(name) # {}

\* What close and destroy of each open handle do to its instance: close
\* tears it down exactly when it is the last handle and a destroy was
\* requested, and destroy leaves it registered with its handles.
TeardownAtLastClose ==
    \A h \in Handles :
        dpifs[h] # NULL
        => /\ ~close(dp_netdevs, dpifs, h).failed
           /\ close(dp_netdevs, dpifs, h).freed
              <=> /\ HandlesOn(dpifs[h].dp) = {h}
                  /\ dp_netdevs[dpifs[h].dp].destroyed
           /\ close(dp_netdevs, dpifs, h).freed
              <=> close(dp_netdevs, dpifs, h).reg[dpifs[h].dp] = NULL
           /\ \A name \in Names \ {dpifs[h].dp} :
                 close(dp_netdevs, dpifs, h).reg[name] = dp_netdevs[name]
           /\ destroy(dp_netdevs, dpifs, h)
              = [dp_netdevs EXCEPT ![dpifs[h].dp].destroyed = TRUE]

\* C16: an instance is torn down exactly at the close that brings its open
\* count to zero while a destroy has been requested: not while it has a
\* handle open, not by destroy, not by a last close without a destroy; and
\* once a destroy has been requested, if its handles are all closed in the
\* end then it is torn down in the end.
C16_Teardown ==
    /\ [](Registered /\ TeardownAtLastClose)
    /\ \A name \in Names :
          []((dp_netdevs[name] # NULL /\ dp_netdevs[name].destroyed)
             => (<>(HandlesOn(name) = {}) => <>(dp_netdevs[name] = NULL)))

\* The instance the model keeps whole has been torn down, its ports and
\* flows freed, while another instance whose last handle was closed with
\* no destroy requested is still registered.
C16_Witness ==
    /\ dp_netdevs[TheDp] = NULL
    /\ port_list = <<>>
    /\ flow_table = EmptyBag
    /\ \A h \in Handles : dpifs[h] = NULL
    /\ \E name \in Names :
          /\ dp_netdevs[name] # NULL
          /\ dp_netdevs[name].open_cnt = 0
          /\ ~dp_netdevs[name].destroyed


\* C17: open without create fails with ENODEV exactly when no instance is
\* registered under the name; open with create fails with EEXIST exactly
\* when an instance of the same class is registered under it; open of an
\* instance of another class fails with EINVAL.  A failed open leaves the
\* registry, with every open count, and the handles as they were; a
\* successful open raises the open count of the instance it names by one
\* and leaves every other instance alone.
C17_Open ==
    \A class \in Classes, name \in Names, create \in BOOLEAN,
       nd \in NetdevAnswers :
        (\E h \in Handles : dpifs[h] = NULL)
        => LET r == open(dp_netdevs, dpifs, class, name, create,
                         LocalAdded(name, nd).ret, SerialOf(name), FreeSlot)
           IN  /\ ~create
                  => (r.ret = "ENODEV" <=> dp_netdevs[name] = NULL)
               /\ create
                  => (r.ret = "EEXIST"
                      <=> /\ dp_netdevs[name] # NULL
                          /\ dp_netdevs[name].class = class)
               /\ (dp_netdevs[name] # NULL /\ dp_netdevs[name].class # class)
                  => r.ret = "EINVAL"
               /\ r.ret # "OK"
                  => /\ r.reg = dp_netdevs
                     /\ r.hs = dpifs
                     /\ ~r.created
               /\ r.ret = "OK"
                  => /\ OpenCount(r.reg, name)
                        = OpenCount(dp_netdevs, name) + 1
                     /\ \A other \in Names \ {name} :
                           r.reg[other] = dp_netdevs[other]
                     /\ r.hs[FreeSlot].dp = name
                     /\ \A h \in Handles \ {FreeSlot} : r.hs[h] = dpifs[h]

\* Two instances of different classes are registered, one of them made by
\* an open with create and closed, the other opened twice, and a handle slot is
\* free: EINVAL and EEXIST are what opens of the first return here.
C17_Witness ==
    /\ dp_netdevs["dp1"] # NULL
    /\ dp_netdevs["dp1"].class = "dummy"
    /\ dp_netdevs["dp1"].open_cnt = 0
    /\ dp_netdevs[TheDp] # NULL
    /\ dp_netdevs[TheDp].class = "netdev"
    /\ dp_netdevs[TheDp].open_cnt = 1
    /\ dpifs[1] = NULL
    /\ dpifs[2] # NULL /\ dpifs[2].dp = TheDp
    /\ open(dp_netdevs, dpifs, "netdev", "dp1", FALSE, "OK", 1, 1).ret
       = "EINVAL"
    /\ open(dp_netdevs, dpifs, "dummy", "dp1", TRUE, "OK", 1, 1).ret
       = "EEXIST"
    /\ open(dp_netdevs, dpifs, "dummy", "dp1", FALSE, "OK", 1, 1).ret = "OK"


(***************************************************************************)
(* Ports: add, delete and poll through two handles of one instance, and    *)
(* packets executed with an OUTPUT action.                                 *)
(***************************************************************************)
PortNames == {"eth0", "eth1"}

AddTypes == {"system", "internal", "gre"}

\* The 32-bit payloads of the OUTPUT actions: the local port, another
\* port, the first number past the port table, and a number whose low 16
\* bits are 1.
OutputPayloads == {OVSP_LOCAL, 1, MAX_PORTS, 65536 + 1}

Output(p) == <<[type |-> "OUTPUT", arg |-> p]>>

SynKey == odp_flow_key_from_flow(KeyOf(PktTcpSyn, OVSP_LOCAL))

NextPorts ==
    \/ \E h \in Handles, devname \in PortNames, type \in AddTypes,
          nd \in NetdevAnswers :
          serial < MaxSerial /\ dpif_netdev_port_add(h, devname, type, nd)
    \/ \E h \in Handles, port_no \in 0..MAX_PORTS :
          serial < MaxSerial /\ dpif_netdev_port_del(h, port_no)
    \/ \E h \in Handles : dpif_netdev_port_poll(h)
    \/ dpif_netdev_open("netdev", TheDp, FALSE, NetdevOk)
    \/ \E h \in Handles, p \in OutputPayloads, crash \in BOOLEAN,
          draw \in Draws :
          dpif_netdev_execute(h, SynKey, Output(p), PktTcpSyn, crash, draw)

SpecPorts == Init /\ [][NextPorts]_vars

\* The port numbers in use.
InUse == {n \in 0..(MAX_PORTS - 1) : ports[n] # NULL}

\* C18: a datapath has at most MAX_PORTS ports, with pairwise distinct
\* port numbers all below MAX_PORTS.  Port add assigns the lowest port
\* number not in use; when every number is in use it fails with EFBIG and
\* leaves the ports and the serial as they were.
C18_Ports ==
    /\ Len(port_list) <= MAX_PORTS
    /\ \A i, j \in DOMAIN port_list :
          port_list[i] = port_list[j] => i = j
    /\ {port_list[i] : i \in DOMAIN port_list} = InUse
    /\ \A n \in InUse : n < MAX_PORTS /\ ports[n].port_no = n
    /\ \A devname \in PortNames, type \in AddTypes, nd \in NetdevAnswers :
          LET r == port_add(CurrentPorts, devname, type, nd)
          IN  /\ r.ret = "EFBIG" <=> InUse = 0..(MAX_PORTS - 1)
              /\ r.ret = "EFBIG" => r.ps = CurrentPorts
              /\ r.ret = "OK"
                 => /\ r.port_no.port_no \notin InUse
                    /\ \A n \in 0..(r.port_no.port_no - 1) : n \in InUse
                    /\ r.ps.ports[r.port_no.port_no] # NULL
                    /\ r.ps.port_list = Append(port_list, r.port_no.port_no)
                    /\ \A n \in InUse : r.ps.ports[n] = ports[n]

\* Every port number is in use, and the port added last got number 1,
\* which a delete had freed while a higher number was in use: the next
\* add fails with EFBIG.
C18_Witness ==
    /\ Len(port_list) = MAX_PORTS
    /\ port_list[MAX_PORTS] = 1
    /\ port_add(CurrentPorts, "eth0", "system", NetdevOk).ret = "EFBIG"


\* C19: the serial grows by one at each successful port add and delete and
\* stays at each failed one and at every other operation; port poll on a
\* handle returns ENOBUFS exactly when a port has been added or deleted
\* with success since the handle was opened or last polled, and EAGAIN
\* otherwise, so that a second poll right after a poll returns EAGAIN.
C19_Serial ==
    /\ \A devname \in PortNames, type \in AddTypes \cup PortTypes,
          nd \in NetdevAnswers :
          LET r == port_add(CurrentPorts, devname, type, nd)
          IN  IF r.ret = "OK" THEN r.ps.serial = serial + 1
              ELSE r.ps = CurrentPorts
    /\ \A port_no \in 0..(MAX_PORTS + 1) :
          LET r == port_del(CurrentPorts, port_no)
          IN  IF r.ret = "OK" THEN r.ps.serial = serial + 1
              ELSE r.ps = CurrentPorts
    /\ \A h \in Handles :
          IsOpen(h)
          => /\ UInt(dpifs[h].dp_serial + port_changes[h]) = serial
             /\ port_poll(dpifs[h], serial).ret
                = IF port_changes[h] > 0 THEN "ENOBUFS" ELSE "EAGAIN"
             /\ port_poll(port_poll(dpifs[h], serial).dpif, serial).ret
                = "EAGAIN"

\* A port has been added and one deleted since handle 1 was polled, and
\* handle 2 has been polled since: poll returns ENOBUFS on handle 1 and
\* EAGAIN on handle 2.
C19_Witness ==
    /\ IsOpen(1) /\ IsOpen(2)
    /\ port_changes[1] = 2
    /\ port_changes[2] = 0
    /\ serial = 4
    /\ dpifs[1].dp_serial = 2
    /\ dpifs[2].dp_serial = serial
    /\ Len(port_list) = 2
    /\ port_poll(dpifs[1], serial).ret = "ENOBUFS"
    /\ port_poll(dpifs[2], serial).ret = "EAGAIN"


\* A port numbered p is attached.
Attached(p) == p < MAX_PORTS /\ ports[p] # NULL

\* C20: executing Output(p), for any port number p the 32-bit payload of
\* the action carries: when a port numbered p is attached the packet is
\* sent on that port and on no other; when none is, which is so of every
\* p >= MAX_PORTS, nothing is sent, no error is returned and the datapath
\* is as it was; and the port table is never read outside 0..MAX_PORTS-1.
C20_Output ==
    ~aborted
    => \A p \in OutputPayloads, crash \in BOOLEAN, draw \in Draws :
          LET r == execute(DP, ports, SynKey, Output(p), PktTcpSyn, crash,
                           draw)
          IN  /\ r.error = "OK"
              /\ r.dp = DP
              /\ ~r.oob
              /\ r.sent = IF Attached(p)
                          THEN <<[port_no |-> p, packet |-> PktTcpSyn]>>
                          ELSE <<>>


(***************************************************************************)
(* Validated action lists: packets arrive, flows are put and deleted,      *)
(* ports are added and deleted and packets are executed, with action       *)
(* lists that hold the kinds the executor has cases for and, nested in     *)
(* SET and SAMPLE, the attributes execute_set_action() and                 *)
(* dp_netdev_sample() have cases for.                                      *)
(***************************************************************************)
PktArp ==
    EthHdr(ETH_TYPE_ARP) \o <<0, 1>> \o Be16Bytes(ETH_TYPE_IP)
    \o <<ETH_ADDR_LEN, 4>> \o Be16Bytes(ARP_OP_REQUEST)
    \o MacA \o Ip4A \o Zeros(ETH_ADDR_LEN) \o Ip4B

\* The packets that arrive: a TCP segment, a frame with no transport
\* header and a runt; those that are executed: the TCP segment, and one
\* cut short in its TCP header.
KnownPackets == {PktTcpSyn, PktArp, PktShort}
ExecPackets == {PktTcpSyn, PktTcpTrunc}

KnownRx == [error : {"OK"}, packet : KnownPackets]
           \cup [error : {"EAGAIN"}, packet : {<<>>}]

KnownKeys ==
    {odp_flow_key_from_flow(KeyOf(pk, OVSP_LOCAL)) :
        pk \in {PktTcpSyn, PktArp}}

SetEthernet ==
    [type |-> "SET",
     arg |-> [type |-> "ETHERNET",
              arg |-> [eth_src |-> MacB, eth_dst |-> MacA]]]

SetIpv4 ==
    [type |-> "SET",
     arg |-> [type |-> "IPV4",
              arg |-> [ipv4_src |-> Ip4B, ipv4_dst |-> Ip4A,
                       ipv4_proto |-> IPPROTO_TCP, ipv4_tos |-> 16,
                       ipv4_ttl |-> 63, ipv4_frag |-> 0]]]

SetTcp ==
    [type |-> "SET",
     arg |-> [type |-> "TCP", arg |-> [tcp_src |-> 80, tcp_dst |-> 1024]]]

SetUdp ==
    [type |-> "SET",
     arg |-> [type |-> "UDP", arg |-> [udp_src |-> 53, udp_dst |-> 1024]]]

SetTunId == [type |-> "SET", arg |-> [type |-> "TUN_ID", arg |-> Zeros(8)]]

Userspace == [type |-> "USERSPACE", arg |-> <<7>>]

\* The SAMPLE action with probability prob and the nested list subactions.
Sample(prob, subactions) ==
    [type |-> "SAMPLE",
     arg |-> <<[type |-> "PROBABILITY", arg |-> prob],
               [type |-> "ACTIONS", arg |-> subactions]>>]

KnownLists ==
    {<<SetEthernet, SetIpv4, SetTcp, [type |-> "OUTPUT", arg |-> OVSP_LOCAL]>>,
     <<[type |-> "PUSH_VLAN", arg |-> 5], SetTunId, SetUdp,
       [type |-> "POP_VLAN", arg |-> 0]>>,
     <<Sample(UINT32_MAX, <<Userspace>>)>>,
     <<[type |-> "OUTPUT", arg |-> MAX_PORTS]>>}

NextKnown ==
    \/ \E k \in KnownKeys, a \in KnownLists :
          dpif_netdev_flow_put({"CREATE"}, k, a)
    \/ \E k \in KnownKeys : dpif_netdev_flow_del(k)
    \/ \E rxs \in [1..Len(port_list) -> KnownRx], crash \in BOOLEAN,
          draw \in Draws :
          Within(rxs, MaxPackets) /\ dpif_netdev_run(rxs, 0, crash, draw)
    \/ dpif_netdev_open("netdev", TheDp, FALSE, NetdevOk)
    \/ \E a \in KnownLists, pk \in ExecPackets, crash \in BOOLEAN,
          draw \in Draws :
          /\ queues[DPIF_UC_ACTION].head = 0
          /\ dpif_netdev_execute(1, SynKey, a, pk, crash, draw)
    \/ serial < 2 /\ dpif_netdev_port_add(1, "eth0", "system", NetdevOk)
    \/ n_hit + n_missed = 0 /\ dpif_netdev_port_del(1, 1)

SpecKnown == Init /\ [][NextKnown]_vars


(***************************************************************************)
(* Execute: packets are executed on an open handle with keys that decode   *)
(* and keys that do not, with action lists of every kind, those the        *)
(* executor has no case for included, while a flow is in the table and     *)
(* packets hit it.                                                         *)
(***************************************************************************)
\* A packet one byte longer than dpif_netdev_execute() accepts.
PktLong == Zeros(UINT16_MAX) \o <<0>>

ExecInputs == {PktTcpSyn, PktTcpTrunc, PktShort, PktLong}

\* The kinds the switch of dp_netdev_execute_actions() has no case that
\* acts for: the two reserved values of enum ovs_action_attr, and two
\* numbers past __OVS_ACTION_ATTR_MAX, named by their digits.
UnknownKinds == {"UNSPEC", "MAX", "8", "65535"}

\* An entry of unknown kind with a USERSPACE action after it.
UnknownThenUserspace(kind) == <<[type |-> kind, arg |-> 0], Userspace>>

ExecLists ==
    KnownLists
    \cup {UnknownThenUserspace(kind) : kind \in {"UNSPEC", "8"}}
    \cup {<<Sample(0, <<Userspace>>)>>}

NextExec ==
    \/ dpif_netdev_flow_put({"CREATE"}, SynKey, <<Userspace>>)
    \/ \E rxs \in [1..Len(port_list) -> KnownRx], crash \in BOOLEAN,
          draw \in Draws :
          Within(rxs, 1) /\ dpif_netdev_run(rxs, 0, crash, draw)
    \/ dpif_netdev_open("netdev", TheDp, FALSE, NetdevOk)
    \/ \E k \in {SynKey, <<1, 2, 3>>}, a \in ExecLists,
          pk \in {PktTcpSyn, PktShort, PktLong}, crash \in BOOLEAN,
          draw \in Draws :
          dpif_netdev_execute(1, k, a, pk, crash, draw)

SpecExec == Init /\ [][NextExec]_vars

\* TRUE when executing the list actions on PktTcpSyn with the draw and the
\* crash given changes the datapath or sends the packet.
Acts(actions, crash, draw) ==
    \/ execute(DP, ports, SynKey, actions, PktTcpSyn, crash, draw).dp # DP
    \/ execute(DP, ports, SynKey, actions, PktTcpSyn, crash, draw).sent
          # <<>>

\* C21: whatever random_uint32() returns, a SAMPLE action with probability
\* 0 never executes its nested actions and one with probability UINT32_MAX
\* always executes them.
C21_Sample ==
    ~aborted
    => \A draw \in Draws, crash \in BOOLEAN :
          /\ ~Acts(<<Sample(0, <<Userspace>>)>>, crash, draw)
          /\ Acts(<<Sample(UINT32_MAX, <<Userspace>>)>>, crash, draw)

\* C22: executing a list with an entry of a kind that is none of OUTPUT,
\* USERSPACE, PUSH_VLAN, POP_VLAN, SET and SAMPLE reaches the abort,
\* whichever kind it is, and the actions after the entry are not executed.
C22_UnknownKind ==
    ~aborted
    => \A kind \in UnknownKinds, crash \in BOOLEAN, draw \in Draws :
          /\ execute(DP, ports, SynKey, UnknownThenUserspace(kind),
                     PktTcpSyn, crash, draw).dp
               = [DP EXCEPT !.aborted = TRUE]

\* C24: execute leaves the flow table, n_hit, n_missed and the caller's
\* packet as they were, whatever the action list; for a packet shorter
\* than an Ethernet header or longer than 65535 bytes and for a key that
\* is not accepted it returns EINVAL and has no effect.
C24_Execute ==
    ~aborted
    => \A k \in NlKeys, a \in ExecLists, pk \in ExecInputs,
          crash \in BOOLEAN, draw \in Draws :
          LET r == execute(DP, ports, k, a, pk, crash, draw)
          IN  /\ r.dp.flow_table = flow_table
              /\ r.dp.n_hit = n_hit
              /\ r.dp.n_missed = n_missed
              /\ r.packet = pk
              /\ (\/ Len(pk) < ETH_HEADER_LEN
                  \/ Len(pk) > 65535
                  \/ dpif_netdev_flow_from_nlattrs(k).error # "OK")
                 => /\ r.error = "EINVAL"
                    /\ r.dp = DP
                    /\ r.sent = <<>>
                    /\ r.copy = pk

\* An execute with a USERSPACE action has queued an upcall while a flow
\* was in the table and no packet had hit it.
C24_Witness ==
    /\ ~aborted
    /\ flow_table # EmptyBag
    /\ n_hit = 0
    /\ queues[DPIF_UC_ACTION].head > 0


\* C23: with action lists of known kinds only, whatever packets arrive and
\* whatever flows and ports are put, added and deleted in between, the
\* process never reaches NOT_REACHED() or a failed assert(): if it has
\* ended, a memory fault ended it.
C23_NoAbort == aborted => faulted

\* Packets have hit a flow whose list sets header fields and a flow whose
\* list samples, and the process goes on.
C23_Witness ==
    /\ ~aborted
    /\ \E f, g \in BagToSet(flow_table) :
          /\ f.packet_count > 0
          /\ SetTcp \in {f.actions[i] : i \in DOMAIN f.actions}
          /\ g.packet_count > 0
          /\ g.actions = <<Sample(UINT32_MAX, <<Userspace>>)>>


(***************************************************************************)
(* The specifications for the extractor and the packet rewrites, on a      *)
(* packet outside the datapath.  In SpecPrefix the packet is a frame or    *)
(* the first bytes of one, and flow_extract() is applied to it.  In        *)
(* SpecPacket it is a whole frame, which is extracted, rewritten by        *)
(* PUSH_VLAN and SET actions and extracted again.                          *)
(***************************************************************************)
\* An IPv4 header with no options and its checksum as csum() computes it;
\* id is the identification field.
Ip4HdrCsum(proto, len, id) ==
    <<69, 0>> \o Be16Bytes(len) \o Be16Bytes(id) \o <<0, 0, 64, proto>>
    \o Be16Bytes(csum(<<69, 0>> \o Be16Bytes(len) \o Be16Bytes(id)
                      \o <<0, 0, 64, proto>> \o Ip4A \o Ip4B, 0, 18))
    \o Ip4A \o Ip4B

UdpHdr == Be16Bytes(1024) \o Be16Bytes(53) \o Be16Bytes(8) \o <<0, 0>>

\* A TCP segment in a frame with an 802.1Q tag.
PktVlanTcp ==
    MacB \o MacA \o Be16Bytes(ETH_TYPE_VLAN) \o Be16Bytes(8197)
    \o Be16Bytes(ETH_TYPE_IP) \o Ip4HdrCsum(IPPROTO_TCP, 40, 1)
    \o TcpHdr(2)

\* A UDP datagram in an 802.2 frame with LLC and SNAP headers.
PktSnapUdp ==
    MacB \o MacA \o Be16Bytes(36) \o <<170, 170, 3, 0, 0, 0>>
    \o Be16Bytes(ETH_TYPE_IP) \o Ip4HdrCsum(IPPROTO_UDP, 28, 2) \o UdpHdr

\* A TCP segment after an IPv6 hop-by-hop options header.
PktIp6HopTcp ==
    EthHdr(ETH_TYPE_IPV6) \o Ip6Hdr(IPPROTO_HOPOPTS, 28)
    \o <<IPPROTO_TCP, 0, 1, 4, 0, 0, 0, 0>> \o TcpHdr(16)

\* An ICMPv6 neighbor discovery message with the given link-layer address
\* options after its target.
NdMsg(type, opts) ==
    EthHdr(ETH_TYPE_IPV6) \o Ip6Hdr(IPPROTO_ICMPV6, 24 + Len(opts))
    \o <<type, 0, 0, 0, 0, 0, 0, 0>> \o Ip6B \o opts

NdOpt(type, ea) == <<type, 1>> \o ea

PktNdSolicit ==
    NdMsg(ND_NEIGHBOR_SOLICIT, NdOpt(ND_OPT_SOURCE_LINKADDR, MacA))

\* A TCP segment whose IPv4 header checksum is 0.
PktTcpCsum0 ==
    EthHdr(ETH_TYPE_IP) \o Ip4HdrCsum(IPPROTO_TCP, 40, 26318) \o TcpHdr(16)

WellFormed ==
    {PktVlanTcp, PktSnapUdp, PktIp6HopTcp, PktNdSolicit, PktArp, PktTcpCsum0}

\* Neighbor discovery messages with the same link-layer address option
\* twice: the first of the two with a non-zero and with an all-zero address.
NdDuplicates ==
    {NdMsg(type, NdOpt(opt, ea) \o NdOpt(opt, MacB)) :
        type \in {ND_NEIGHBOR_SOLICIT, ND_NEIGHBOR_ADVERT},
        opt \in {ND_OPT_SOURCE_LINKADDR, ND_OPT_TARGET_LINKADDR},
        ea \in {MacA, Zeros(ETH_ADDR_LEN)}}

\* The packet that is the first n bytes of the frame whole, before
\* flow_extract() has seen it.
Arrived(whole, n) ==
    [whole |-> whole, packet |-> SubSeq(whole, 1, n), flow |-> NULL,
     l3 |-> NoPtr, l4 |-> NoPtr, l7 |-> NoPtr, fresh |-> FALSE,
     set |-> FALSE, again |-> FALSE, pushed |-> FALSE, tci |-> 0,
     untagged |-> FALSE, oob |-> FALSE]

InitPrefix ==
    /\ Constructed
    /\ wc = NULL
    /\ \E whole \in WellFormed \cup NdDuplicates : \E n \in 0..Len(whole) :
          buf = Arrived(whole, n)

InitPacket ==
    /\ Constructed
    /\ wc = NULL
    /\ \E whole \in WellFormed : buf = Arrived(whole, Len(whole))

\* flow_extract() of the packet as it is now.
Extracted(b, x) ==
    [b EXCEPT !.flow = x.flow, !.l3 = x.l3, !.l4 = x.l4, !.l7 = x.l7,
              !.fresh = TRUE]

packet_extract ==
    /\ buf # NULL
    /\ ~buf.fresh
    /\ buf' = Extracted(buf, flow_extract(buf.packet, Zeros(4), Zeros(8),
                                          OFPP_LOCAL))
    /\ UNCHANGED <<dpVars, portVars, handleVars, now, aborted, faulted,
                   shadow, pending, delivered, port_changes, wc>>

\* The packet after the action a of an action list executed on it with the
\* key flow_extract() gave: st is the state execute_action() leaves.  set
\* tells that a SET has rewritten the packet, again that a SET has
\* rewritten what an earlier SET left.
Rewritten(b, a, st) ==
    [b EXCEPT !.packet = st.packet, !.l3 = st.l3, !.l4 = st.l4,
              !.l7 = st.l7, !.fresh = FALSE,
              !.oob = @ \/ st.oob,
              !.set = @ \/ (a.type = "SET" /\ ~st.oob),
              !.again = @ \/ (b.set /\ a.type = "SET" /\ ~st.oob),
              !.pushed = @ \/ a.type = "PUSH_VLAN",
              !.tci = IF a.type = "PUSH_VLAN" THEN a.arg ELSE @,
              !.untagged = IF a.type = "PUSH_VLAN"
                           THEN Be16At(b.packet, 2 * ETH_ADDR_LEN)
                                   # ETH_TYPE_VLAN
                           ELSE @]

\* One action of dp_netdev_execute_actions() on the packet.  The executor
\* runs on frames that hold an Ethernet header; the model pushes one tag
\* at most.
packet_execute(a) ==
    /\ buf # NULL
    /\ buf.flow # NULL
    /\ Len(buf.packet) >= ETH_HEADER_LEN
    /\ a.type = "PUSH_VLAN" => ~buf.pushed
    /\ buf' = Rewritten(buf, a,
                        execute_action(ExecState(DP, buf.packet, buf, 0),
                                       ports, buf.flow, a))
    /\ UNCHANGED <<dpVars, portVars, handleVars, now, aborted, faulted,
                   shadow, pending, delivered, port_changes, wc>>

\* The TCI values pushed: with and without the CFI bit, with a priority,
\* and all ones.
PushTcis == {5, 4101, 57354, 65535}

PushVlan(tci) == [type |-> "PUSH_VLAN", arg |-> tci]

\* The SET actions for the IPv4 header: addresses, ToS and TTL values
\* whose 16-bit words include 0x0000 and 0xffff.
SetIpv4To(src, dst, tos, ttl) ==
    [type |-> "SET",
     arg |-> [type |-> "IPV4",
              arg |-> [ipv4_src |-> src, ipv4_dst |-> dst,
                       ipv4_proto |-> IPPROTO_TCP, ipv4_tos |-> tos,
                       ipv4_ttl |-> ttl, ipv4_frag |-> 0]]]

SetIpv4Keys ==
    {SetIpv4To(src, dst, tos, ttl) :
        src \in {Ip4A, <<0, 0, 255, 255>>},
        dst \in {Ip4B, <<255, 255, 0, 0>>},
        tos \in {0, 255}, ttl \in {64, 255}}

PacketActions == {PushVlan(t) : t \in PushTcis} \cup SetIpv4Keys

NextPacket ==
    \/ packet_extract
    \/ \E a \in PacketActions : packet_execute(a)

SpecPacket == InitPacket /\ [][NextPacket]_vars

NextPrefix == packet_extract

SpecPrefix == InitPrefix /\ [][NextPrefix]_vars

\* The fields of a key.
FlowFields == DOMAIN flow_zero

\* C25: the key extracted from the first bytes of a well-formed frame
\* agrees with the key of the whole frame in every field it sets to a
\* non-zero value.
C25_Prefix ==
    (buf # NULL /\ buf.flow # NULL /\ buf.fresh /\ ~buf.pushed
       /\ ~buf.set /\ buf.whole \in WellFormed)
    => \A f \in FlowFields :
          buf.flow[f] # flow_zero[f]
          => buf.flow[f] = flow_extract(buf.whole, Zeros(4), Zeros(8),
                                        OFPP_LOCAL).flow[f]


\* The checksum of the IPv4 header at offset l3 of p computed from scratch:
\* csum() over the header with its checksum field taken as zero.
ip_csum_scratch(p, l3) ==
    csum(PutBytes(p, l3 + 10, <<0, 0>>), l3, (p[l3 + 1] % 16) * 4)

\* The frame is an IPv4 frame whose header carries the checksum computed
\* from scratch.
ValidIpv4(whole, x) ==
    /\ x.flow.dl_type = ETH_TYPE_IP
    /\ Inside(whole, x.l3, IP_HEADER_LEN)
    /\ Be16At(whole, x.l3 + 10) = ip_csum_scratch(whole, x.l3)

\* C28: after one or more SET actions on the IPv4 header of a frame that
\* arrived with a valid header checksum and whose key is an IPv4 key, the
\* header's checksum field holds the checksum computed from scratch over
\* the header as it is now.
C28_Checksum ==
    (buf # NULL /\ buf.set /\ buf.flow.dl_type = ETH_TYPE_IP
       /\ ValidIpv4(buf.whole, flow_extract(buf.whole, Zeros(4), Zeros(8),
                                            OFPP_LOCAL)))
    => Be16At(buf.packet, buf.l3 + 10)
          = ip_csum_scratch(buf.packet, buf.l3)

\* The frame whose header checksum was 0 has been rewritten by a SET and
\* again by a later one, and now has new addresses that hold the words
\* 0x0000 and 0xffff, a new ToS and a new TTL.
C28_Witness ==
    /\ buf # NULL
    /\ buf.whole = PktTcpCsum0
    /\ buf.again
    /\ BytesAt(buf.packet, buf.l3 + 12, 8) = <<0, 0, 255, 255, 255, 255, 0, 0>>
    /\ buf.packet[buf.l3 + 2] = 255
    /\ buf.packet[buf.l3 + 9] = 255


\* The parts of a 16-bit TCI: the VLAN id in the low 12 bits, the CFI bit,
\* the priority in the high 3 bits.
TciVid(tci) == tci % VLAN_CFI
TciCfi(tci) == (tci \div VLAN_CFI) % 2
TciPcp(tci) == tci \div (2 * VLAN_CFI)

\* C29: after PUSH_VLAN with TCI t on an untagged frame, the key extracted
\* from the frame has the VLAN id and priority of t in vlan_tci and the CFI
\* bit set, and the tag in the frame has the CFI bit clear, whether t has
\* the CFI bit or not.
C29_PushVlan ==
    (buf # NULL /\ buf.pushed /\ buf.untagged /\ buf.fresh)
    => /\ TciVid(buf.flow.vlan_tci) = TciVid(buf.tci)
       /\ TciPcp(buf.flow.vlan_tci) = TciPcp(buf.tci)
       /\ TciCfi(buf.flow.vlan_tci) = 1
       /\ Be16At(buf.packet, 2 * ETH_ADDR_LEN) = ETH_TYPE_VLAN
       /\ TciCfi(Be16At(buf.packet, 2 * ETH_ADDR_LEN + 2)) = 0
       /\ TciVid(Be16At(buf.packet, 2 * ETH_ADDR_LEN + 2)) = TciVid(buf.tci)
       /\ TciPcp(Be16At(buf.packet, 2 * ETH_ADDR_LEN + 2)) = TciPcp(buf.tci)

\* A TCI with the CFI bit set and a priority has been pushed on the ARP
\* frame, and the frame has been extracted again.
C29_Witness ==
    /\ buf # NULL
    /\ buf.whole = PktArp
    /\ buf.pushed
    /\ buf.untagged
    /\ buf.fresh
    /\ TciCfi(buf.tci) = 1
    /\ TciPcp(buf.tci) = 7
    /\ buf.flow.dl_type = ETH_TYPE_ARP
    /\ buf.flow.arp_sha = MacA


\* TRUE when p is an untagged IPv6 frame that carries, right after the IPv6
\* header, a neighbor solicitation or advertisement with code 0 and its
\* target.
IsNdMessage(p) ==
    /\ Len(p) >= ETH_HEADER_LEN + IP6_HEADER_LEN + ICMP6_HEADER_LEN + 16
    /\ Be16At(p, 2 * ETH_ADDR_LEN) = ETH_TYPE_IPV6
    /\ p[ETH_HEADER_LEN + 7] = IPPROTO_ICMPV6
    /\ p[ETH_HEADER_LEN + IP6_HEADER_LEN + 1]
          \in {ND_NEIGHBOR_SOLICIT, ND_NEIGHBOR_ADVERT}
    /\ p[ETH_HEADER_LEN + IP6_HEADER_LEN + 2] = 0

\* The number of link-layer address options of the given type among the
\* options of p that start at offset o.
RECURSIVE NdOptCount(_, _, _)
NdOptCount(p, o, type) ==
    IF BufSize(p, o) < 8 \/ p[o + 2] = 0 \/ p[o + 2] * 8 > BufSize(p, o)
    THEN 0
    ELSE (IF p[o + 1] = type /\ p[o + 2] = 1 THEN 1 ELSE 0)
         + NdOptCount(p, o + p[o + 2] * 8, type)

NdOptions == ETH_HEADER_LEN + IP6_HEADER_LEN + ICMP6_HEADER_LEN + 16

\* C30: the key extracted from a neighbor discovery message that carries
\* two source link-layer address options, or two target link-layer address
\* options, has nd_target, arp_sha and arp_tha all zero, whatever addresses
\* the options carry.
C30_NdDuplicate ==
    (buf # NULL /\ buf.fresh /\ IsNdMessage(buf.packet)
       /\ (\/ NdOptCount(buf.packet, NdOptions, ND_OPT_SOURCE_LINKADDR) >= 2
           \/ NdOptCount(buf.packet, NdOptions, ND_OPT_TARGET_LINKADDR) >= 2))
    => /\ buf.flow.nd_target = Zeros(16)
       /\ buf.flow.arp_sha = Zeros(ETH_ADDR_LEN)
       /\ buf.flow.arp_tha = Zeros(ETH_ADDR_LEN)


(***************************************************************************)
(* struct flow_wildcards (flow.h) and the functions on it (flow.c).  The   *)
(* masks are kept as the bytes they hold, the FWW_* bits as a number.      *)
(***************************************************************************)
FLOW_N_REGS == 5
UINT8_MAX == 255
FWW_DL_TYPE == 2 ^ 4
FWW_NW_PROTO == 2 ^ 5
FWW_ALL == 2 ^ 15 - 1

Ones(n) == [i \in 1..n |-> UINT8_MAX]

\* The bitwise AND of two byte strings of one length.
AndBytes(a, b) == [i \in 1..Len(a) |-> BitAnd(a[i], b[i])]

flow_wildcards_init_catchall ==
    [wildcards |-> FWW_ALL, tun_id_mask |-> Zeros(8),
     nw_src_mask |-> Zeros(4), nw_dst_mask |-> Zeros(4),
     ipv6_src_mask |-> Zeros(16), ipv6_dst_mask |-> Zeros(16),
     reg_masks |-> [i \in 0..(FLOW_N_REGS - 1) |-> Zeros(4)],
     vlan_tci_mask |-> Zeros(2), nw_frag_mask |-> 0, zeros |-> Zeros(5)]

flow_wildcards_init_exact ==
    [wildcards |-> 0, tun_id_mask |-> Ones(8),
     nw_src_mask |-> Ones(4), nw_dst_mask |-> Ones(4),
     ipv6_src_mask |-> Ones(16), ipv6_dst_mask |-> Ones(16),
     reg_masks |-> [i \in 0..(FLOW_N_REGS - 1) |-> Ones(4)],
     vlan_tci_mask |-> Ones(2), nw_frag_mask |-> UINT8_MAX,
     zeros |-> Zeros(5)]

flow_wildcards_is_exact(w) ==
    ~(\/ w.wildcards # 0
      \/ w.tun_id_mask # Ones(8)
      \/ w.nw_src_mask # Ones(4)
      \/ w.nw_dst_mask # Ones(4)
      \/ w.vlan_tci_mask # Ones(2)
      \/ w.ipv6_src_mask # Ones(16)
      \/ w.ipv6_dst_mask # Ones(16)
      \/ w.nw_frag_mask # UINT8_MAX
      \/ \E i \in 0..(FLOW_N_REGS - 1) : w.reg_masks[i] # Ones(4))

flow_wildcards_is_catchall(w) ==
    ~(\/ w.wildcards # FWW_ALL
      \/ w.tun_id_mask # Zeros(8)
      \/ w.nw_src_mask # Zeros(4)
      \/ w.nw_dst_mask # Zeros(4)
      \/ w.vlan_tci_mask # Zeros(2)
      \/ w.ipv6_src_mask # Zeros(16)
      \/ w.ipv6_dst_mask # Zeros(16)
      \/ w.nw_frag_mask # 0
      \/ \E i \in 0..(FLOW_N_REGS - 1) : w.reg_masks[i] # Zeros(4))

\* flow_wildcards_combine(dst, src1, src2): dst after the call.  The
\* members the function does not assign keep what dst held.
flow_wildcards_combine(dst, src1, src2) ==
    [dst EXCEPT
       !.wildcards = BitOr(src1.wildcards, src2.wildcards),
       !.tun_id_mask = AndBytes(src1.tun_id_mask, src2.tun_id_mask),
       !.nw_src_mask = AndBytes(src1.nw_src_mask, src2.nw_src_mask),
       !.nw_dst_mask = AndBytes(src1.nw_dst_mask, src2.nw_dst_mask),
       !.ipv6_src_mask = AndBytes(src1.ipv6_src_mask, src2.ipv6_src_mask),
       !.ipv6_dst_mask = AndBytes(src1.ipv6_dst_mask, src2.ipv6_dst_mask),
       !.reg_masks = [i \in 0..(FLOW_N_REGS - 1) |->
                        AndBytes(src1.reg_masks[i], src2.reg_masks[i])],
       !.vlan_tci_mask = AndBytes(src1.vlan_tci_mask, src2.vlan_tci_mask)]

\* flow_wildcards_has_extra(a, b)
flow_wildcards_has_extra(a, b) ==
    \/ \E i \in 0..(FLOW_N_REGS - 1) :
          AndBytes(a.reg_masks[i], b.reg_masks[i]) # b.reg_masks[i]
    \/ AndBytes(a.ipv6_src_mask, b.ipv6_src_mask) # b.ipv6_src_mask
    \/ AndBytes(a.ipv6_dst_mask, b.ipv6_dst_mask) # b.ipv6_dst_mask
    \/ a.wildcards - BitAnd(a.wildcards, b.wildcards) # 0
    \/ AndBytes(a.tun_id_mask, b.tun_id_mask) # b.tun_id_mask
    \/ AndBytes(a.nw_src_mask, b.nw_src_mask) # b.nw_src_mask
    \/ AndBytes(a.nw_dst_mask, b.nw_dst_mask) # b.nw_dst_mask
    \/ AndBytes(a.vlan_tci_mask, b.vlan_tci_mask) # b.vlan_tci_mask

flow_wildcards_set_reg_mask(w, idx, mask) ==
    [w EXCEPT !.reg_masks[idx] = mask]

(***************************************************************************)
(* The specification for the wildcard functions: a struct flow_wildcards   *)
(* that holds one of the masks below is initialised, has register masks    *)
(* set and is made the combination of two masks.                           *)
(***************************************************************************)
\* The masks: catch-all, exact, one that fixes the fragment bits only, an
\* IPv4 source prefix, a VLAN id with the first register's low bits, and a
\* tunnel id with an IPv6 destination prefix.
WildInputs ==
    {flow_wildcards_init_catchall,
     flow_wildcards_init_exact,
     [flow_wildcards_init_catchall EXCEPT !.nw_frag_mask = 3],
     [flow_wildcards_init_catchall EXCEPT
        !.wildcards = FWW_ALL - FWW_DL_TYPE,
        !.nw_src_mask = <<255, 255, 255, 0>>],
     [flow_wildcards_init_catchall EXCEPT
        !.vlan_tci_mask = <<15, 255>>,
        !.reg_masks[0] = <<0, 0, 0, 15>>],
     [flow_wildcards_init_exact EXCEPT
        !.wildcards = FWW_NW_PROTO,
        !.ipv6_dst_mask = Ones(8) \o Zeros(8),
        !.nw_frag_mask = 0]}

InitWild ==
    /\ Constructed
    /\ buf = NULL
    /\ wc \in WildInputs

wild_init_catchall ==
    /\ wc' = flow_wildcards_init_catchall
    /\ UNCHANGED <<dpVars, portVars, handleVars, now, aborted, faulted,
                   shadow, pending, delivered, port_changes, buf>>

wild_init_exact ==
    /\ wc' = flow_wildcards_init_exact
    /\ UNCHANGED <<dpVars, portVars, handleVars, now, aborted, faulted,
                   shadow, pending, delivered, port_changes, buf>>

wild_set_reg_mask(idx, mask) ==
    /\ wc' = flow_wildcards_set_reg_mask(wc, idx, mask)
    /\ UNCHANGED <<dpVars, portVars, handleVars, now, aborted, faulted,
                   shadow, pending, delivered, port_changes, buf>>

\* flow_wildcards_combine(&wc, src1, src2)
wild_combine(src1, src2) ==
    /\ wc' = flow_wildcards_combine(wc, src1, src2)
    /\ UNCHANGED <<dpVars, portVars, handleVars, now, aborted, faulted,
                   shadow, pending, delivered, port_changes, buf>>

NextWild ==
    \/ wild_init_catchall
    \/ wild_init_exact
    \/ \E idx \in 0..(FLOW_N_REGS - 1), mask \in {Zeros(4), Ones(4)} :
          wild_set_reg_mask(idx, mask)
    \/ \E src1, src2 \in WildInputs \cup {wc} : wild_combine(src1, src2)

SpecWild == InitWild /\ [][NextWild]_vars

\* C26: the combination of two masks is the same mask in every member
\* whichever of the two comes first, and the combination of three is the
\* same however they are grouped, whatever the structures that receive the
\* results held before.
C26_Combine ==
    \A a, b \in WildInputs, d \in WildInputs :
       /\ flow_wildcards_combine(wc, a, b) = flow_wildcards_combine(d, b, a)
       /\ \A c \in WildInputs :
             flow_wildcards_combine(
                 wc, flow_wildcards_combine(wc, a, b), c)
               = flow_wildcards_combine(
                     d, a, flow_wildcards_combine(d, b, c))

\* C27: the catch-all mask has something wildcarded that a mask which is
\* not catch-all has not.
C27_HasExtra ==
    ~flow_wildcards_is_catchall(wc)
    => flow_wildcards_has_extra(flow_wildcards_init_catchall, wc)


\* C32: the lost counter never exceeds the miss counter.
C32_LostAreMisses == n_lost <= n_missed


\* C33: max_mtu never decreases.  (A port add stores the MTU of the port
\* it adds, so a max_mtu that never decreases is at least the MTU of every
\* port added so far.)
C33_MaxMtu == [][max_mtu' >= max_mtu]_vars


\* C34: after flow_wildcards_combine(dst, src1, src2) the fragment mask of
\* dst has exactly the bits set in both sources, like the other masks,
\* whatever dst held before; the combination of any mask with the
\* catch-all mask is catch-all and that of the exact mask with itself is
\* exact.
C34_CombineResult ==
    \A src1, src2 \in WildInputs :
       /\ flow_wildcards_combine(wc, src1, src2).nw_frag_mask
            = BitAnd(src1.nw_frag_mask, src2.nw_frag_mask)
       /\ flow_wildcards_combine(wc, src1, src2).nw_src_mask
            = AndBytes(src1.nw_src_mask, src2.nw_src_mask)
       /\ flow_wildcards_is_catchall(
              flow_wildcards_combine(wc, src1, flow_wildcards_init_catchall))
       /\ flow_wildcards_is_exact(
              flow_wildcards_combine(wc, flow_wildcards_init_exact,
                                     flow_wildcards_init_exact))


\* The bytes of a struct flow_wildcards in memory order; the structure has
\* no holes.
WildBytes(w) ==
    w.tun_id_mask \o Host16Bytes(w.wildcards) \o <<0, 0>>
    \o w.reg_masks[0] \o w.reg_masks[1] \o w.reg_masks[2] \o w.reg_masks[3]
    \o w.reg_masks[4] \o w.nw_src_mask \o w.nw_dst_mask \o w.ipv6_src_mask
    \o w.ipv6_dst_mask \o w.vlan_tci_mask \o <<w.nw_frag_mask>> \o w.zeros

flow_wildcards_hash(w, basis) == hash_bytes(WildBytes(w), basis)

flow_wildcards_equal(a, b) ==
    ~(\/ a.wildcards # b.wildcards
      \/ a.tun_id_mask # b.tun_id_mask
      \/ a.nw_src_mask # b.nw_src_mask
      \/ a.nw_dst_mask # b.nw_dst_mask
      \/ a.vlan_tci_mask # b.vlan_tci_mask
      \/ a.ipv6_src_mask # b.ipv6_src_mask
      \/ a.ipv6_dst_mask # b.ipv6_dst_mask
      \/ \E i \in 0..(FLOW_N_REGS - 1) : a.reg_masks[i] # b.reg_masks[i])

\* The values given as the hash basis.
Bases == {0, 1}

\* C40: masks that flow_wildcards_equal() finds equal have the same
\* flow_wildcards_hash(), for every basis.
C40_EqualHash ==
    \A b \in WildInputs, basis \in Bases :
       flow_wildcards_equal(wc, b)
       => flow_wildcards_hash(wc, basis) = flow_wildcards_hash(b, basis)


\* A UDP datagram whose checksum field holds c.
PktUdpCsum(c) ==
    EthHdr(ETH_TYPE_IP) \o Ip4HdrCsum(IPPROTO_UDP, 28, 3)
    \o Be16Bytes(1024) \o Be16Bytes(53) \o Be16Bytes(8) \o Be16Bytes(c)

\* The UDP checksums the frames arrive with: 1 becomes 0 when the source
\* port 1024 becomes 1025, 62974 becomes 0 when the source address 10.0.0.1
\* becomes 0.0.255.255.
UdpCsums == {1, 62974}

\* UDP datagrams without a checksum (PktSnapUdp) and with one.
UdpFrames == {PktSnapUdp} \cup {PktUdpCsum(c) : c \in UdpCsums}

InitUdp ==
    /\ Constructed
    /\ wc = NULL
    /\ \E whole \in UdpFrames : buf = Arrived(whole, Len(whole))

SetUdpTo(src, dst) ==
    [type |-> "SET",
     arg |-> [type |-> "UDP", arg |-> [udp_src |-> src, udp_dst |-> dst]]]

\* The SET actions executed on the datagrams: new ports, new addresses.
UdpActions ==
    {SetUdpTo(src, dst) : src \in {1024, 1025}, dst \in {53, 54}}
    \cup {SetIpv4To(src, dst, 0, 64) :
             src \in {Ip4A, <<0, 0, 255, 255>>},
             dst \in {Ip4B, <<255, 255, 0, 0>>}}

NextUdp ==
    \/ packet_extract
    \/ \E a \in UdpActions : packet_execute(a)

SpecUdp == InitUdp /\ [][NextUdp]_vars

\* The packet holds a whole UDP header, found by flow_extract().
IsUdp(b) ==
    /\ b # NULL
    /\ b.flow # NULL
    /\ b.flow.dl_type = ETH_TYPE_IP
    /\ b.flow.nw_proto = IPPROTO_UDP
    /\ b.l7 # NoPtr

\* The checksum field of the UDP header.
UdpCsum(b) == Be16At(b.packet, b.l4 + 6)

\* C35: a SET of the IPv4 addresses or of the UDP ports leaves the UDP
\* checksum field zero exactly when the field was zero before the action.
C35_UdpChecksum ==
    [][IsUdp(buf) => (UdpCsum(buf') = 0 <=> UdpCsum(buf) = 0)]_vars


(***************************************************************************)
(* The local port over the life of an instance: the instance the model     *)
(* keeps whole is opened, closed, destroyed and created again while ports  *)
(* are added to it and deleted from it.                                    *)
(***************************************************************************)
\* The device opens and netdev_get_mtu() fails.
NetdevNoMtu == [error |-> "OK", mtu |-> NULL]

NextLocal ==
    \/ \E create \in BOOLEAN, nd \in NetdevAnswers :
          dpif_netdev_open("netdev", TheDp, create, nd)
    \/ \E h \in Handles : dpif_netdev_close(h)
    \/ \E h \in Handles : dpif_netdev_destroy(h)
    \/ \E h \in Handles :
          serial < MaxSerial /\ dpif_netdev_port_add(h, "eth0", "system",
                                                     NetdevNoMtu)
    \/ \E h \in Handles, port_no \in 0..MAX_PORTS :
          serial < MaxSerial /\ dpif_netdev_port_del(h, port_no)

SpecLocal == Init /\ [][NextLocal]_vars

\* The local port is attached: it is in the port table as an internal port
\* and once in the port list.
LocalAttached(ps) ==
    /\ ps.ports[OVSP_LOCAL] # NULL
    /\ ps.ports[OVSP_LOCAL].port_no = OVSP_LOCAL
    /\ ps.ports[OVSP_LOCAL].internal
    /\ Len(SelectSeq(ps.port_list, LAMBDA n : n = OVSP_LOCAL)) = 1

\* C36: an instance that is registered has its local port attached; an
\* open that creates an instance whose local port cannot be added fails
\* with the error of the add and registers nothing; port delete of
\* OVSP_LOCAL fails with EINVAL and leaves the ports and the serial as
\* they were.
C36_LocalPort ==
    /\ dp_netdevs[TheDp] # NULL => LocalAttached(CurrentPorts)
    /\ port_del(CurrentPorts, OVSP_LOCAL)
          = [ret |-> "EINVAL", ps |-> CurrentPorts]
    /\ \A name \in Names, class \in Classes, nd \in NetdevAnswers :
          (dp_netdevs[name] = NULL /\ \E h \in Handles : dpifs[h] = NULL)
          => /\ nd.error = "OK"
                => LocalAttached(LocalAdded(name, nd).ps)
             /\ nd.error # "OK"
                => open(dp_netdevs, dpifs, class, name, TRUE,
                        LocalAdded(name, nd).ret,
                        LocalAdded(name, nd).ps.serial, FreeSlot)
                     = open_failed(nd.error, dp_netdevs, dpifs)

\* The instance has been torn down and created again, its local port added
\* with an MTU of 576; a second port has been added to it and deleted, and
\* it is doomed by a destroy.  The local port is the one port it has.
C36_Witness ==
    /\ dp_netdevs[TheDp] # NULL
    /\ dp_netdevs[TheDp].destroyed
    /\ max_mtu = 576
    /\ serial = 3
    /\ port_list = <<OVSP_LOCAL>>


\* C37: the open count of a registered instance is the number of open
\* handles that refer to it and is not negative, and an open handle refers
\* to an instance that is registered.
C37_OpenCount ==
    /\ \A name \in Names :
          dp_netdevs[name] # NULL
          => /\ dp_netdevs[name].open_cnt = Cardinality(HandlesOn(name))
             /\ dp_netdevs[name].open_cnt >= 0
    /\ \A h \in Handles : dpifs[h] # NULL => dp_netdevs[dpifs[h].dp] # NULL

\* One instance has been torn down at the last close of its handles; the
\* other was created later and both handles now refer to it.
C37_Witness ==
    /\ dp_netdevs[TheDp] = NULL
    /\ dp_netdevs["dp1"] # NULL
    /\ dp_netdevs["dp1"].open_cnt = 2
    /\ HandlesOn("dp1") = Handles


\* The instance registered under name is doomed: a destroy was requested.
Doomed(reg, name) == reg[name] # NULL /\ reg[name].destroyed

\* What opens of a doomed instance that has a handle open do, by a caller
\* of the instance's class: without create the open succeeds and the new
\* handle refers to the instance, which stays doomed; with create it fails
\* with EEXIST and leaves the registry as it was.
DoomedOpens ==
    \A name \in Names, nd \in NetdevAnswers :
        (/\ Doomed(dp_netdevs, name)
         /\ HandlesOn(name) # {}
         /\ \E h \in Handles : dpifs[h] = NULL)
        => /\ open(dp_netdevs, dpifs, dp_netdevs[name].class, name, FALSE,
                   LocalAdded(name, nd).ret, SerialOf(name), FreeSlot)
              = open_attached(dp_netdevs, dpifs, name, SerialOf(name),
                              FreeSlot, FALSE)
           /\ open_attached(dp_netdevs, dpifs, name, SerialOf(name),
                            FreeSlot, FALSE).hs[FreeSlot].dp = name
           /\ Doomed(open_attached(dp_netdevs, dpifs, name, SerialOf(name),
                                   FreeSlot, FALSE).reg, name)
           /\ open(dp_netdevs, dpifs, dp_netdevs[name].class, name, TRUE,
                   LocalAdded(name, nd).ret, SerialOf(name), FreeSlot)
              = open_failed("EEXIST", dp_netdevs, dpifs)

\* A step leaves a doomed instance doomed, or tears it down at the close
\* of the one handle that was open on it.
StaysDoomed ==
    \A name \in Names :
        Doomed(dp_netdevs, name)
        => \/ /\ Doomed(dp_netdevs', name)
              /\ dp_netdevs'[name].class = dp_netdevs[name].class
           \/ /\ dp_netdevs'[name] = NULL
              /\ \E h \in Handles :
                    /\ HandlesOn(name) = {h}
                    /\ dpifs'[h] = NULL

\* C38: a requested destroy is never cancelled.  The instance stays doomed
\* until the last close tears it down; until then an open without create
\* attaches to it and an open with create fails with EEXIST, so that no
\* fresh instance is registered under its name.
C38_Destroy == []DoomedOpens /\ [][StaysDoomed]_vars

\* A destroy has been requested of the instance that holds a flow.  The
\* handle it was made with has been closed; a handle opened on it later is
\* open, and the instance is still registered and doomed.
C38_Witness ==
    /\ Doomed(dp_netdevs, TheDp)
    /\ dp_netdevs[TheDp].open_cnt = 1
    /\ dpifs[1] = NULL
    /\ HandlesOn(TheDp) = {2}
    /\ flow_table # EmptyBag


(***************************************************************************)
(* The port table and the port list: ports are added, with device layer    *)
(* answers that fail and types that are refused among them, and deleted,   *)
(* and run passes receive a packet of no flow on some of the ports.        *)
(***************************************************************************)
\* What the ports give a run pass: nothing, or a packet.
ListRx == [error : {"OK"}, packet : {PktTcpSyn}]
          \cup [error : {"EAGAIN"}, packet : {<<>>}]

NextList ==
    \/ \E h \in Handles, devname \in PortNames, type \in {"system", "gre"},
          nd \in {NetdevNoMtu, [error |-> "ENODEV", mtu |-> NULL]} :
          serial < MaxSerial + 2 /\ dpif_netdev_port_add(h, devname, type, nd)
    \/ \E h \in Handles, port_no \in 0..MAX_PORTS :
          serial < MaxSerial + 2 /\ dpif_netdev_port_del(h, port_no)
    \/ \E rxs \in [1..Len(port_list) -> ListRx] :
          Within(rxs, MaxUpcalls) /\ dpif_netdev_run(rxs, 0, FALSE, 0)

SpecList == Init /\ [][NextList]_vars

\* The port numbers in the port list, in the table, and those an OUTPUT
\* action and a port query by number find.
ListPorts(plist) == {plist[i] : i \in 1..Len(plist)}

OutputFinds ==
    {n \in 0..(2 * MAX_PORTS) :
        dp_netdev_output_port(
            ExecState(DP, PktTcpSyn,
                      flow_extract(PktTcpSyn, Zeros(4), Zeros(8),
                                   OVSP_LOCAL), 0),
            ports, n).sent # <<>>}

QueryFinds ==
    {n \in 0..(2 * MAX_PORTS) : get_port_by_number(ports, n).ret = "OK"}

\* A packet of no flow on every port.
EveryPortRx == [i \in 1..Len(port_list) |-> [error |-> "OK",
                                             packet |-> PktTcpSyn]]

\* The table and the list describe the same ports, each once in the list,
\* and a run pass that receives a packet on every port it visits counts a
\* miss for each port the table holds.
SamePorts ==
    /\ ListPorts(port_list) = InUse
    /\ \A n \in InUse :
          /\ ports[n].port_no = n
          /\ Len(SelectSeq(port_list, LAMBDA m : m = n)) = 1
    /\ Len(port_list) = Cardinality(InUse)
    /\ OutputFinds = InUse
    /\ QueryFinds = InUse
    /\ (~aborted /\ flow_table = EmptyBag)
       => run_loop(DP, ports, port_list, 1, EveryPortRx, now, 0, FALSE,
                   0).n_missed
             = (n_missed + Cardinality(InUse)) % (2 ^ StatBits)

\* The list plist without the ports that prts does not hold.
KeptPorts(plist, prts) == SelectSeq(plist, LAMBDA n : prts[n] # NULL)

\* A step keeps the order of the ports that stay and puts a port that is
\* added at the end of the list.
AddedLast ==
    \/ port_list' = KeptPorts(port_list, ports')
    \/ \E n \in 0..(MAX_PORTS - 1) :
          /\ ports[n] = NULL
          /\ ports'[n] # NULL
          /\ port_list' = Append(port_list, n)

\* C39: the port table and the port list describe the same set of ports,
\* each port once in the list and the list in the order of the successful
\* additions, so that a run pass visits the ports that an OUTPUT action
\* and a port query find.
C39_PortList == []SamePorts /\ [][AddedLast]_vars

\* Ports 1 and 2 were added after the local port, port 1 was deleted and
\* added again: the list is not in the order of the port numbers.  A run
\* pass has received packets on the ports.
C39_Witness ==
    /\ port_list = <<OVSP_LOCAL, 2, 1>>
    /\ n_missed = MaxUpcalls


(***************************************************************************)
(* The two loops of flow_extract(): the walk over the IPv6 extension       *)
(* headers and the walk over the neighbor discovery options.  An           *)
(* iteration is recorded as the offset o of the header or option it looks  *)
(* at, the number read of leading bytes of it that it reads, and the       *)
(* number len of bytes it pulls, 0 where it returns without pulling.       *)
(***************************************************************************)
Iter(o, read, len) == [o |-> o, read |-> read, len |-> len]

\* The bytes of a header with the length of an authentication header
\* counted from one word less than its definition says.
ext_hdr_len_ah4(p, o, nexthdr) ==
    IF nexthdr = IPPROTO_AH THEN (p[o + 2] + 1) * 4
    ELSE IF nexthdr = IPPROTO_FRAGMENT THEN IP6_FRAG_LEN
    ELSE (p[o + 2] + 1) * 8

\* The bytes the header of kind nexthdr at offset o says it has.
ext_hdr_len(p, o, nexthdr) ==
    IF nexthdr = IPPROTO_AH THEN (p[o + 2] + 2) * 4
    ELSE IF nexthdr = IPPROTO_FRAGMENT THEN IP6_FRAG_LEN
    ELSE (p[o + 2] + 1) * 8

\* The leading bytes of the header an iteration reads: next header and
\* length, and of a fragment header the offset field as well.
ext_hdr_read(nexthdr) == IF nexthdr = IPPROTO_FRAGMENT THEN 4 ELSE 2

\* The iterations of the loop of parse_ipv6() that get past its two tests,
\* from the header kind nexthdr at offset o.
RECURSIVE ipv6_ext_iters(_, _, _)
ipv6_ext_iters(p, o, nexthdr) ==
    IF ~IsExtHdr(nexthdr) \/ BufSize(p, o) < 8 THEN <<>>
    ELSE IF BufSize(p, o) < ext_hdr_len(p, o, nexthdr)
    THEN <<Iter(o, ext_hdr_read(nexthdr), 0)>>
    ELSE IF /\ nexthdr = IPPROTO_FRAGMENT
            /\ BitAnd(Be16At(p, o + 2), IP6F_OFF_MASK) # 0
    THEN <<Iter(o, ext_hdr_read(nexthdr), IP6_FRAG_LEN)>>
    ELSE <<Iter(o, ext_hdr_read(nexthdr), ext_hdr_len(p, o, nexthdr))>>
         \o ipv6_ext_iters(p, o + ext_hdr_len(p, o, nexthdr), p[o + 1])

\* The bytes of an option the loop of parse_icmpv6() reads: type and
\* length, and the address of a link-layer address option of 8 bytes.
nd_opt_read(p, o) ==
    IF /\ p[o + 2] * 8 = 8
       /\ p[o + 1] \in {ND_OPT_SOURCE_LINKADDR, ND_OPT_TARGET_LINKADDR}
    THEN 2 + ETH_ADDR_LEN
    ELSE 2

\* The iterations of the loop of parse_icmpv6() from the option at offset
\* o, with the link-layer addresses sha and tha stored so far.
RECURSIVE nd_opt_iters(_, _, _, _)
nd_opt_iters(p, o, sha, tha) ==
    IF BufSize(p, o) < 8 THEN <<>>
    ELSE IF p[o + 2] * 8 = 0 \/ p[o + 2] * 8 > BufSize(p, o)
    THEN <<Iter(o, 2, 0)>>
    ELSE IF /\ p[o + 2] * 8 = 8
            /\ \/ /\ p[o + 1] = ND_OPT_SOURCE_LINKADDR
                  /\ ~eth_addr_is_zero(sha)
               \/ /\ p[o + 1] = ND_OPT_TARGET_LINKADDR
                  /\ ~eth_addr_is_zero(tha)
    THEN <<Iter(o, 2, 0)>>
    ELSE <<Iter(o, nd_opt_read(p, o), p[o + 2] * 8)>>
         \o nd_opt_iters(p, o + p[o + 2] * 8,
               IF p[o + 2] * 8 = 8 /\ p[o + 1] = ND_OPT_SOURCE_LINKADDR
               THEN BytesAt(p, o + 2, ETH_ADDR_LEN) ELSE sha,
               IF p[o + 2] * 8 = 8 /\ p[o + 1] = ND_OPT_TARGET_LINKADDR
               THEN BytesAt(p, o + 2, ETH_ADDR_LEN) ELSE tha)

\* Extension headers of every kind before a TCP segment: hop-by-hop
\* options of 8 bytes, a routing header of 16, destination options of 8, an
\* authentication header of 8, one of 12, and the header of a first
\* fragment.
PktIp6Chain ==
    EthHdr(ETH_TYPE_IPV6) \o Ip6Hdr(IPPROTO_HOPOPTS, 80)
    \o <<IPPROTO_ROUTING, 0, 1, 4, 0, 0, 0, 0>>
    \o <<IPPROTO_DSTOPTS, 1, 0, 0>> \o Zeros(12)
    \o <<IPPROTO_AH, 0, 1, 4, 0, 0, 0, 0>>
    \o <<IPPROTO_AH, 0, 0, 0, 0, 0, 0, 1>>
    \o <<IPPROTO_FRAGMENT, 1, 0, 0, 0, 0, 0, 1, 0, 0, 0, 2>>
    \o <<IPPROTO_TCP, 0, 0, 1, 0, 0, 0, 7>> \o TcpHdr(2)

\* A later fragment, and hop-by-hop options that say they have 32 bytes
\* where 8 follow.
PktIp6Later ==
    EthHdr(ETH_TYPE_IPV6) \o Ip6Hdr(IPPROTO_FRAGMENT, 16)
    \o <<IPPROTO_TCP, 0, 0, 8, 0, 0, 0, 7>> \o Zeros(8)

PktIp6Long ==
    EthHdr(ETH_TYPE_IPV6) \o Ip6Hdr(IPPROTO_HOPOPTS, 8)
    \o <<IPPROTO_TCP, 3, 1, 4, 0, 0, 0, 0>>

\* Neighbor discovery messages with options of 8 and of 16 bytes that are
\* not link-layer addresses between the two that are, closed by an option
\* of length 0, and with an option that says it has 32 bytes where 8
\* follow.
PktNdOptions ==
    NdMsg(ND_NEIGHBOR_ADVERT,
          NdOpt(ND_OPT_SOURCE_LINKADDR, MacA) \o <<5, 1, 0, 0, 0, 0, 5, 220>>
          \o <<3, 2>> \o Zeros(14) \o NdOpt(ND_OPT_TARGET_LINKADDR, MacB)
          \o <<5, 0, 0, 0, 0, 0, 5, 220>>)

PktNdLong ==
    NdMsg(ND_NEIGHBOR_SOLICIT,
          NdOpt(ND_OPT_TARGET_LINKADDR, MacB) \o <<3, 4, 0, 0, 0, 0, 0, 0>>)

WalkFrames ==
    {PktIp6Chain, PktIp6Later, PktIp6Long, PktNdOptions, PktNdLong,
     PktIp6HopTcp, PktNdSolicit}

InitWalk ==
    /\ Constructed
    /\ wc = NULL
    /\ \E whole \in WalkFrames \cup NdDuplicates : \E n \in 0..Len(whole) :
          buf = Arrived(whole, n)

NextWalk == packet_extract

SpecWalk == InitWalk /\ [][NextWalk]_vars

\* The iterations its of a walk that starts at offset start of p: there
\* are no more of them than the bytes from start on hold 8-byte units,
\* each reads and pulls bytes of the packet alone, and each but the last
\* pulls 8 bytes or more, the next one starting where it ends.
WalkBounded(p, start, its) ==
    /\ Len(its) <= BufSize(p, start) \div 8
    /\ \A i \in 1..Len(its) :
          /\ its[i].o >= start
          /\ its[i].o + its[i].read <= Len(p)
          /\ its[i].o + its[i].len <= Len(p)
          /\ its[i].len >= 8 \/ (its[i].len = 0 /\ i = Len(its))
          /\ i < Len(its) => its[i + 1].o = its[i].o + its[i].len

\* Where a walk whose iterations are its ends, having started at start.
WalkEnd(start, its) ==
    IF its = <<>> THEN start ELSE its[Len(its)].o + its[Len(its)].len

\* The first extension header of the IPv6 packet in b, and the first
\* option of the neighbor discovery message in it.
ExtStart(b) == b.l3 + IP6_HEADER_LEN

HasIpv6(b) ==
    /\ b # NULL
    /\ b.fresh
    /\ b.l3 # NoPtr
    /\ Be16At(b.packet, 2 * ETH_ADDR_LEN) = ETH_TYPE_IPV6
    /\ BufSize(b.packet, b.l3) >= IP6_HEADER_LEN

NdStart(b) == b.l4 + ICMP6_HEADER_LEN + 16

HasNd(b) ==
    /\ HasIpv6(b)
    /\ b.l4 # NoPtr
    /\ b.flow.nw_proto = IPPROTO_ICMPV6
    /\ BufSize(b.packet, b.l4) >= ICMP6_HEADER_LEN + 16
    /\ b.packet[b.l4 + 2] = 0
    /\ b.packet[b.l4 + 1] \in {ND_NEIGHBOR_SOLICIT, ND_NEIGHBOR_ADVERT}

\* C31: flow_extract() ends on every buffer.  Each iteration of its walk
\* over the IPv6 extension headers and of its walk over the neighbor
\* discovery options pulls 8 bytes or more or is the last, so that the
\* iterations are no more than the remaining length \div 8, and none reads
\* a header field past the bytes that remain.
C31_Walks ==
    /\ HasIpv6(buf)
       => /\ WalkBounded(buf.packet, ExtStart(buf),
                         ipv6_ext_iters(buf.packet, ExtStart(buf),
                                        buf.packet[buf.l3 + 7]))
          /\ ~ipv6_ext_walk(buf.packet, ExtStart(buf),
                            buf.packet[buf.l3 + 7], flow_zero).err
             => ipv6_ext_walk(buf.packet, ExtStart(buf),
                              buf.packet[buf.l3 + 7], flow_zero).o
                   = WalkEnd(ExtStart(buf),
                             ipv6_ext_iters(buf.packet, ExtStart(buf),
                                            buf.packet[buf.l3 + 7]))
    /\ HasNd(buf)
       => /\ WalkBounded(buf.packet, NdStart(buf),
                         nd_opt_iters(buf.packet, NdStart(buf),
                                      Zeros(ETH_ADDR_LEN),
                                      Zeros(ETH_ADDR_LEN)))
          /\ nd_opt_walk(buf.packet, NdStart(buf), flow_zero).o
                = WalkEnd(NdStart(buf),
                          nd_opt_iters(buf.packet, NdStart(buf),
                                       Zeros(ETH_ADDR_LEN),
                                       Zeros(ETH_ADDR_LEN)))

\* flow_extract() has walked the six extension headers of the whole chain
\* frame and found its TCP header.
C31_Witness ==
    /\ HasIpv6(buf)
    /\ buf.packet = PktIp6Chain
    /\ Len(ipv6_ext_iters(buf.packet, ExtStart(buf),
                          buf.packet[buf.l3 + 7])) = 6
    /\ buf.flow.nw_proto = IPPROTO_TCP
    /\ buf.flow.tp_dst = 80

====
